---- MODULE Spec2Model ----
(***************************************************************************)
(* Region classifier and shape inference of src/src/image_processor.py.    *)
(*                                                                         *)
(* ImageProcessor.detect_all_contours is modelled from the point where     *)
(* cv2.findContours has returned: the traced contours and the geometric    *)
(* descriptors OpenCV computes for them are the inputs, everything the     *)
(* Python code does with them is modelled step by step.                    *)
(*                                                                         *)
(* Numbers.  Ratios that the code rounds to two decimals (aspect_ratio,    *)
(* extent, circularity, convexity) are integers in hundredths, so that     *)
(* `circularity > 0.85` is `circularity > 85`.  cv2.contourArea returns    *)
(* multiples of 0.5; the field area2 of a contour is twice that value, so  *)
(* that `area < 10` is `area2 < 20` and int(area) is area2 \div 2.         *)
(* Python dicts are objects: `info` is the heap of the dicts appended to   *)
(* all_contours, keyed by contour_id, and every list of the code           *)
(* (all_contours, circular_regions, small_dots, buttons) is a sequence of  *)
(* contour_ids, i.e. of references to those dicts.                         *)
(*                                                                         *)
(* Specifications.  Spec is one call of detect_all_contours, SpecTwice two *)
(* calls on the same image, SpecShape a direct call of classify_shape,     *)
(* SpecCorner a call of detect_corner_radius, SpecShadow a call of         *)
(* detect_shadow on a synthetic scene, SpecMask the polarity correction of *)
(* the threshold mask in both detection methods, and SpecMain a call of    *)
(* detect_main_object.  SpecShadowTwice is two calls of detect_shadow,     *)
(* SpecSvg a call of SVGGenerator.generate_svg, SpecComplete the script    *)
(* test_complete.py, SpecHandler the /generate_svg handler of app.py,      *)
(* SpecUpload its two upload handlers, and SpecOptimizer a call of         *)
(* AutoSVGOptimizer.optimize_svg.  They share the variables; each one      *)
(* leaves the variables of the other methods at their idle values.         *)
(***************************************************************************)
EXTENDS Integers, Sequences, FiniteSets

VARIABLES
    contours,          \* what cv2.findContours returned, with OpenCV's measures
    info,              \* contour_id -> the dict appended to all_contours
    all_contours,      \* list of references (contour_ids)
    circular_regions,  \* list of references
    small_dots,        \* list of references
    buttons,           \* list of references
    pc,                \* position in the method that is running
    result,            \* the returned list (of dicts), <<>> before the return
    raised,            \* an exception escaped detect_all_contours
    shape_arg,         \* argument of a direct call of classify_shape
    shape_ret,         \* its return value
    run,               \* number of the current call of detect_all_contours
    prev_result,       \* what the previous call returned
    corner_arg,        \* argument of detect_corner_radius
    corner_ret,        \* its return value
    shadow_arg,        \* image and region of a call of detect_shadow
    center_samples,    \* the brightnesses it sampled at random positions
    shadow_ret,        \* its return value
    thresholded,       \* what cv2.threshold returned for the image
    thresh_otsu,       \* the global-threshold mask
    main_arg,          \* image and traced contours of detect_main_object
    valid_contours,    \* its list valid_contours
    main_ret,          \* its return value
    svg_arg,           \* arguments of SVGGenerator.generate_svg
    svg_ret,           \* the body it drew and the document's description
    test_raised,       \* an exception ended the script test_complete.py
    shadow_prev,       \* image, samples and result of an earlier call
    all_contours_original, \* what the /generate_svg handler detected
    response,          \* the JSON a handler answered
    CURRENT_IMAGE_PATH, \* the image the handlers process
    clock,             \* int(time.time())
    uploads,           \* the files of UPLOADS_DIR with what they hold
    upload_log,        \* the upload requests answered so far
    opt_arg,           \* the arguments of optimize_svg
    iteration,         \* its loop variable
    history,           \* its list history
    best_similarity,   \* its best_similarity, in hundredths
    best_svg,          \* its best_svg
    opt_ret,           \* what optimize_svg returned
    opt_raised         \* an exception escaped optimize_svg

\* the variables of detect_all_contours and classify_shape
classifierVars == <<contours, info, all_contours, circular_regions, small_dots,
                    buttons, result, raised, shape_arg, shape_ret, run,
                    prev_result>>

\* the variables of the other methods
estimatorVars == <<corner_arg, corner_ret, shadow_arg, center_samples,
                   shadow_ret, thresholded, thresh_otsu, main_arg,
                   valid_contours, main_ret>>

\* the variables of the SVG generator and of the scripts and services
\* around the processor
svgVars == <<svg_arg, svg_ret, test_raised>>

handlerVars == <<all_contours_original, response>>

uploadVars == <<CURRENT_IMAGE_PATH, clock, uploads, upload_log>>

optimizerVars == <<opt_arg, iteration, history, best_similarity, best_svg,
                   opt_ret, opt_raised>>

serviceVars == <<svgVars, shadow_prev, handlerVars, uploadVars,
                 optimizerVars>>

vars == <<classifierVars, estimatorVars, serviceVars, pc>>

\* Largest number of contours cv2.findContours returns in the model.
MaxContours == 4

(***************************************************************************)
(* Inputs: traced contours.  x, y, w, h are cv2.boundingRect, area2 is     *)
(* twice cv2.contourArea, circularity and convexity are the values the     *)
(* code derives from cv2.arcLength and cv2.convexHull, center_y comes from *)
(* cv2.moments, n_points is len(contour), vertices is len(approxPolyDP),   *)
(* n_hull is len(convexHull), n_defects is the number of rows of           *)
(* cv2.convexityDefects (0 for None), defects_raise says that call raises. *)
(* The scene is a 100x400 remote-control body with an 80x80 dial centred   *)
(* at (200,140), two 40x40 buttons, three 12x12 dots, a text glyph, a      *)
(* plus-shaped icon and a speck of noise.                                  *)
(***************************************************************************)
Contour(x, y, w, h, a2, circ, conv, cy, np, vs, nh, nd) ==
    [x |-> x, y |-> y, w |-> w, h |-> h, area2 |-> a2,
     circularity |-> circ, convexity |-> conv, center_y |-> cy,
     n_points |-> np, vertices |-> vs, n_hull |-> nh, n_defects |-> nd,
     defects_raise |-> FALSE]

BodyRect  == Contour(150,   0, 100, 400, 80000, 50, 100, 200,  4, 4,  4, 0)
Disc80    == Contour(160, 100,  80,  80, 10052, 89,  99, 140, 40, 8, 20, 0)
DiscTop   == Contour(180,  20,  40,  40,  2512, 88,  98,  40, 24, 8, 12, 0)
DiscBot   == Contour(180, 300,  40,  40,  2513, 88,  98, 320, 24, 8, 12, 0)
DotNear   == Contour(159, 134,  12,  12,   200, 87,  97, 140, 12, 8,  8, 0)
DotFar    == Contour(194, 194,  12,  12,   200, 87,  97, 200, 12, 8,  8, 0)
DotEdge   == Contour(158, 134,  12,  12,   200, 87,  97, 140, 12, 8,  8, 0)
Glyph     == Contour(170, 350,  60,  10,   900, 30,  90, 355, 14, 6,  6, 2)
Plus      == Contour(185, 240,  30,  30,  1000, 44,  71, 255, 12, 12, 8, 4)
Speck     == Contour( 10,  10,   3,   3,     9, 70, 100,  11,  4, 4,  4, 0)

Catalog == {BodyRect, Disc80, DiscTop, DiscBot, DotNear, DotFar, DotEdge,
            Glyph, Plus, Speck}

Types == {"unknown", "body", "circle_control", "button", "small_dot"}

----------------------------------------------------------------------------
(* Helpers *)

Range(s) == {s[i] : i \in 1..Len(s)}

Max(a, b) == IF a >= b THEN a ELSE b

\* round(float(p) / q, 2) in hundredths, `... if q > 0 else 0`
Ratio100(p, q) == IF q > 0 THEN (200 * p + q) \div (2 * q) ELSE 0

\* Python list.sort(key=area, reverse=True): stable, larger area first.
RECURSIVE InsertAreaDesc(_, _, _)
InsertAreaDesc(c, s, inf) ==
    IF s = <<>> THEN <<c>>
    ELSE IF inf[Head(s)].area < inf[c].area THEN <<c>> \o s
    ELSE <<Head(s)>> \o InsertAreaDesc(c, Tail(s), inf)

RECURSIVE InsertAreaAsc(_, _, _)
InsertAreaAsc(c, s, inf) ==
    IF s = <<>> THEN <<c>>
    ELSE IF inf[Head(s)].area > inf[c].area THEN <<c>> \o s
    ELSE <<Head(s)>> \o InsertAreaAsc(c, Tail(s), inf)

RECURSIVE SortAreaAsc(_, _)
SortAreaAsc(s, inf) ==
    IF s = <<>> THEN <<>>
    ELSE InsertAreaAsc(s[Len(s)], SortAreaAsc(SubSeq(s, 1, Len(s) - 1), inf), inf)

RECURSIVE SortAreaDesc(_, _)
SortAreaDesc(s, inf) ==
    IF s = <<>> THEN <<>>
    ELSE InsertAreaDesc(s[Len(s)], SortAreaDesc(SubSeq(s, 1, Len(s) - 1), inf), inf)

\* Python list.sort(key=center_y): stable, smaller center_y first.
RECURSIVE InsertCenterY(_, _, _)
InsertCenterY(c, s, inf) ==
    IF s = <<>> THEN <<c>>
    ELSE IF inf[Head(s)].center_y > inf[c].center_y THEN <<c>> \o s
    ELSE <<Head(s)>> \o InsertCenterY(c, Tail(s), inf)

RECURSIVE SortCenterY(_, _)
SortCenterY(s, inf) ==
    IF s = <<>> THEN <<>>
    ELSE InsertCenterY(s[Len(s)], SortCenterY(SubSeq(s, 1, Len(s) - 1), inf), inf)

\* [c for c in s if keep]
RECURSIVE SelectIds(_, _)
SelectIds(s, keep) ==
    IF s = <<>> THEN <<>>
    ELSE (IF Head(s) \in keep THEN <<Head(s)>> ELSE <<>>) \o SelectIds(Tail(s), keep)

----------------------------------------------------------------------------
(* detect_all_contours: contour extraction *)

NoShape == "none"

\* c encloses d: d's bounding box lies within c's and d is not larger
Within(d, c) ==
    /\ c.x <= d.x /\ d.x + d.w <= c.x + c.w
    /\ c.y <= d.y /\ d.y + d.h <= c.y + c.h
    /\ d.area2 <= c.area2

\* hierarchy[0][i][3] of cv2.RETR_TREE for the contours cs, i counted from
\* 0: the index of the innermost contour that encloses contour i, -1 at the
\* top level.  Of two contours with the same outline (the outer and the
\* inner border of a thin line) the later one is inside the earlier one.
ParentIndex(cs, i) ==
    LET Encloses(p, q) ==
            /\ p # q
            /\ Within(cs[q + 1], cs[p + 1])
            /\ Within(cs[p + 1], cs[q + 1]) => p < q
        around == {p \in 0..(Len(cs) - 1) : Encloses(p, i)}
    IN  IF around = {} THEN -1
        ELSE CHOOSE p \in around :
                \A q \in around \ {p} : ~Encloses(p, q)

\* The dict appended to all_contours for contour number i.
ContourInfo(i, c, parent_idx) ==
    [contour      |-> c,
     type         |-> "unknown",
     area         |-> c.area2 \div 2,
     bounding_box |-> <<c.x, c.y, c.w, c.h>>,
     aspect_ratio |-> Ratio100(c.w, c.h),
     extent       |-> Ratio100(c.area2, 2 * c.w * c.h),
     circularity  |-> c.circularity,
     convexity    |-> c.convexity,
     center_y     |-> c.center_y,
     contour_id   |-> i,
     parent_id    |-> parent_idx,
     children     |-> <<>>,
     shape        |-> NoShape]

\* `if area < 10: continue`
NoiseFloor == 20

IsNoise(c) == c.area2 < NoiseFloor

\* the list as an earlier call left it
StaleList(s) == s

\* all_contours = []
NewList(s) == <<>>

\* for i, contour in enumerate(contours): ... all_contours.append({...})
ExtractContours ==
    /\ pc = "extract"
    /\ LET n    == Len(contours)
           kept == {i \in 0..(n - 1) : ~IsNoise(contours[i + 1])}
       IN /\ info' = [i \in kept |-> ContourInfo(i, contours[i + 1],
                                                  ParentIndex(contours, i))]
          /\ all_contours' = NewList(all_contours)
                                 \o SelectIds([k \in 1..n |-> k - 1], kept)
    /\ pc' = "body"
    /\ UNCHANGED <<contours, circular_regions, small_dots, buttons, result,
                   raised, shape_arg, shape_ret, run, prev_result,
                   estimatorVars,
                   serviceVars>>

----------------------------------------------------------------------------
(* detect_all_contours: classification *)

WholeList(s) == s

\* Python s[1:]
Rest(s) == IF s = <<>> THEN <<>> ELSE Tail(s)

SetType(inf, ids, t) ==
    [i \in DOMAIN inf |-> IF i \in ids THEN [inf[i] EXCEPT !.type = t] ELSE inf[i]]

AlwaysTrue(s) == TRUE

\* `if len(all_contours) > 0:`
HasContours(s) == Len(s) > 0

\* all_contours.sort(...); all_contours[0]['type'] = 'body'
\* Indexing an empty list raises IndexError.
SelectBody ==
    /\ pc = "body"
    /\ LET sorted == SortAreaDesc(all_contours, info)
       IN /\ all_contours' = sorted
          /\ IF HasContours(sorted)
             THEN IF sorted = <<>>
                  THEN /\ raised' = TRUE
                       /\ pc' = "done"
                       /\ info' = info
                  ELSE /\ info' = SetType(info, {sorted[1]}, "body")
                       /\ pc' = "circular"
                       /\ raised' = raised
             ELSE /\ info' = info
                  /\ pc' = "circular"
                  /\ raised' = raised
    /\ UNCHANGED <<contours, circular_regions, small_dots, buttons, result,
                   shape_arg, shape_ret, run, prev_result,
                   estimatorVars,
                   serviceVars>>

IsCircularNoConvexity(c) ==
    /\ 60 <= c.aspect_ratio /\ c.aspect_ratio <= 140
    /\ c.circularity > 40

\* is_circular
IsCircular(c) ==
    /\ 60 <= c.aspect_ratio /\ c.aspect_ratio <= 140
    /\ c.circularity > 40
    /\ c.convexity > 75

IsSmallDotAreaWide(c) == c.area < 5000

\* `if c['area'] < 500:`
IsSmallDotArea(c) == c.area < 500

\* for c in all_contours[1:]  (the whole loop)
DetectCircular ==
    /\ pc = "circular"
    /\ LET cand  == {i \in Range(Rest(all_contours)) : IsCircular(info[i])}
           small == {i \in cand : IsSmallDotArea(info[i])}
       IN /\ small_dots' = SelectIds(Rest(all_contours), small)
          /\ circular_regions' = SelectIds(Rest(all_contours), cand \ small)
          /\ info' = SetType(info, small, "small_dot")
    /\ pc' = "classify"
    /\ UNCHANGED <<contours, all_contours, buttons, result, raised,
                   shape_arg, shape_ret, run, prev_result,
                   estimatorVars,
                   serviceVars>>

\* circular_regions.sort(area, reverse); circular_regions[0]['type'] = 'circle_control'
SelectCircleControl ==
    /\ pc = "classify"
    /\ IF Len(circular_regions) > 0
       THEN LET sorted == SortAreaDesc(circular_regions, info)
            IN /\ circular_regions' = sorted
               /\ info' = SetType(info, {sorted[1]}, "circle_control")
               /\ pc' = "dots"
       ELSE /\ UNCHANGED <<circular_regions, info,
                   serviceVars>>
            /\ pc' = "filter"
    /\ UNCHANGED <<contours, all_contours, small_dots, buttons, result,
                   raised, shape_arg, shape_ret, run, prev_result,
                   estimatorVars,
                   serviceVars>>

\* edge_threshold
edge_threshold == 15

CenterX(bb) == bb[1] + bb[3] \div 2
CenterY(bb) == bb[2] + bb[4] \div 2

\* circle_radius = max(circle_w, circle_h) // 2
CircleRadius(bb) == Max(bb[3], bb[4]) \div 2

\* (dx ** 2 + dy ** 2), the square of `distance`
Distance2(bb, cbb) ==
    (CenterX(bb) - CenterX(cbb)) * (CenterX(bb) - CenterX(cbb))
    + (CenterY(bb) - CenterY(cbb)) * (CenterY(bb) - CenterY(cbb))

\* `distance < circle_radius * 1.2`: with d2 = distance ** 2 and r an integer
\* this is 25 * d2 < 36 * r * r (the float error of the square root and of
\* r * 1.2 is far below the gap 1 / (60 r) between unequal sides).
IsNearCircle(bb, cbb) ==
    25 * Distance2(bb, cbb) < 36 * CircleRadius(cbb) * CircleRadius(cbb)

\* is_near_edge with the boundary column counted as edge
IsNearEdgeInclusive(bb, body_bb) ==
    \/ CenterX(bb) <= body_bb[1] + edge_threshold
    \/ CenterX(bb) >= body_bb[1] + body_bb[3] - edge_threshold

\* is_near_edge
IsNearEdge(bb, body_bb) ==
    \/ CenterX(bb) < body_bb[1] + edge_threshold
    \/ CenterX(bb) > body_bb[1] + body_bb[3] - edge_threshold

\* for dot in small_dots: keep it or mark it 'unknown'  (the whole loop;
\* the local list valid_small_dots is never read)
FilterSmallDots ==
    /\ pc = "dots"
    /\ LET cbb      == info[circular_regions[1]].bounding_box
           body_bb  == info[all_contours[1]].bounding_box
           rejected == {d \in Range(small_dots) :
                          ~(/\ IsNearCircle(info[d].bounding_box, cbb)
                            /\ ~IsNearEdge(info[d].bounding_box, body_bb))}
       IN info' = SetType(info, rejected, "unknown")
    /\ pc' = "buttons"
    /\ UNCHANGED <<contours, all_contours, circular_regions, small_dots,
                   buttons, result, raised, shape_arg, shape_ret, run, prev_result,
                   estimatorVars,
                   serviceVars>>

\* buttons = circular_regions[1:]; buttons.sort(center_y); btn['type'] = 'button'
AssignButtons ==
    /\ pc = "buttons"
    /\ buttons' = SortCenterY(Rest(circular_regions), info)
    /\ info' = SetType(info, Range(Rest(circular_regions)), "button")
    /\ pc' = "filter"
    /\ UNCHANGED <<contours, all_contours, circular_regions, small_dots,
                   result, raised, shape_arg, shape_ret, run, prev_result,
                   estimatorVars,
                   serviceVars>>

KeepAll(c) == TRUE

\* `c['type'] != 'unknown'`
IsClassified(c) == c.type # "unknown"

\* all_contours = [c for c in all_contours if c['type'] != 'unknown']
\* the test without the look-up in contour_map
HasParent(parent_id, contour_map) == parent_id # -1

\* parent_id != -1 and parent_id in contour_map
HasParentInMap(parent_id, contour_map) ==
    parent_id # -1 /\ parent_id \in contour_map

\* all_contours = [c for c in all_contours if c['type'] != 'unknown'], then
\* every dict left is appended to the children of its parent.
\* contour_map[parent_id] raises KeyError for a parent that is not a key.
FilterUnknown ==
    /\ pc = "filter"
    /\ LET kept == SelectIds(all_contours,
                             {i \in DOMAIN info : IsClassified(info[i])})
           contour_map == Range(kept)
           Attached(id) == HasParentInMap(info[id].parent_id, contour_map)
           ChildOf(p) ==
               LET IsChild(id) == Attached(id) /\ info[id].parent_id = p
               IN  SelectSeq(kept, IsChild)
       IN  IF \E id \in contour_map :
                 Attached(id) /\ info[id].parent_id \notin contour_map
           THEN /\ raised' = TRUE
                /\ pc' = "done"
                /\ all_contours' = kept
                /\ UNCHANGED info
           ELSE /\ all_contours' = kept
                /\ info' = [i \in DOMAIN info |->
                               [info[i] EXCEPT !.children = ChildOf(i)]]
                /\ pc' = "shape"
                /\ UNCHANGED raised
    /\ UNCHANGED <<contours, circular_regions, small_dots, buttons,
                   result, shape_arg, shape_ret, run, prev_result,
                   estimatorVars,
                   serviceVars>>

----------------------------------------------------------------------------
(* classify_shape *)

\* extent_calc > 0.75, extent_calc = cv2.contourArea / (w * h) unrounded
ExtentCalcAbove75(c) == c.w * c.h > 0 /\ 2 * c.area2 > 3 * c.w * c.h

\* `len(hull) > 3 and len(contour) > 10`, the try block and the tests in it
IsCross(ci) ==
    /\ ci.contour.n_hull > 3
    /\ ci.contour.n_points > 10
    /\ ~ci.contour.defects_raise
    /\ ci.contour.n_defects >= 4
    /\ 70 < ci.aspect_ratio /\ ci.aspect_ratio < 130
    /\ 50 < ci.convexity /\ ci.convexity < 85

ClassifyShapeTriangleFirst(ci) ==
    IF ci.type = "body" THEN "rectangle"
    ELSE IF ci.circularity > 85 THEN "circle"
    ELSE IF ci.contour.vertices = 3 THEN "triangle"
    ELSE IF (ci.aspect_ratio > 300 \/ ci.aspect_ratio < 33) /\ ci.extent > 50
         THEN "line"
    ELSE IF ci.contour.vertices = 4 /\ ExtentCalcAbove75(ci.contour)
         THEN "rectangle"
    ELSE IF /\ 60 < ci.circularity /\ ci.circularity < 85
            /\ ci.extent > 70
            /\ 70 < ci.aspect_ratio /\ ci.aspect_ratio < 140
         THEN "rectangle"
    ELSE IF IsCross(ci) THEN "cross"
    ELSE "complex"

\* classify_shape with the line rule ahead of the body rule (not the code's)
ClassifyShapeLineBeforeBody(ci) ==
    IF (ci.aspect_ratio > 300 \/ ci.aspect_ratio < 33) /\ ci.extent > 50
    THEN "line"
    ELSE IF ci.type = "body" THEN "rectangle"
    ELSE IF ci.circularity > 85 THEN "circle"
    ELSE "complex"

ClassifyShape(ci) ==
    IF ci.type = "body" THEN "rectangle"
    ELSE IF ci.circularity > 85 THEN "circle"
    ELSE IF (ci.aspect_ratio > 300 \/ ci.aspect_ratio < 33) /\ ci.extent > 50
         THEN "line"
    ELSE IF ci.contour.vertices = 3 THEN "triangle"
    ELSE IF ci.contour.vertices = 4 /\ ExtentCalcAbove75(ci.contour)
         THEN "rectangle"
    ELSE IF /\ 60 < ci.circularity /\ ci.circularity < 85
            /\ ci.extent > 70
            /\ 70 < ci.aspect_ratio /\ ci.aspect_ratio < 140
         THEN "rectangle"
    ELSE IF IsCross(ci) THEN "cross"
    ELSE "complex"

----------------------------------------------------------------------------
(* detect_all_contours: annotation and return *)

\* for contour_info in all_contours: contour_info['shape'] = classify_shape(...)
\* (detect_shadow adds a 'shadow' key to the dict and touches nothing else)
AnnotateShapes ==
    /\ pc = "shape"
    /\ info' = [i \in DOMAIN info |->
                  IF i \in Range(all_contours)
                  THEN [info[i] EXCEPT !.shape = ClassifyShape(info[i])]
                  ELSE info[i]]
    /\ pc' = "return"
    /\ UNCHANGED <<contours, all_contours, circular_regions, small_dots,
                   buttons, result, raised, shape_arg, shape_ret, run, prev_result,
                   estimatorVars,
                   serviceVars>>

\* return all_contours
Return ==
    /\ pc = "return"
    /\ result' = [k \in 1..Len(all_contours) |-> info[all_contours[k]]]
    /\ pc' = "done"
    /\ UNCHANGED <<contours, info, all_contours, circular_regions, small_dots,
                   buttons, raised, shape_arg, shape_ret, run, prev_result,
                   estimatorVars,
                   serviceVars>>

----------------------------------------------------------------------------
(* One run of detect_all_contours on every list of at most MaxContours     *)
(* contours of the catalog, in every detection order.                      *)

NoArg == [type |-> "unknown"]

\* None, a value equal to no dict
None == [none |-> TRUE]

\* the methods that are not running hold nothing
EstimatorsIdle ==
    /\ corner_arg = None
    /\ corner_ret = None
    /\ shadow_arg = None
    /\ center_samples = <<>>
    /\ shadow_ret = None
    /\ thresholded = None
    /\ thresh_otsu = None
    /\ main_arg = None
    /\ valid_contours = <<>>
    /\ main_ret = None

\* nothing has been generated or requested
SvgIdle ==
    /\ svg_arg = None
    /\ svg_ret = None
    /\ test_raised = FALSE

HandlerIdle ==
    /\ all_contours_original = <<>>
    /\ response = None

\* a file path: the directory, then <name>_<stamp>.<ext>, or <name>.<ext>
\* when the stamp is -1
Path(dir, name, stamp, ext) ==
    [dir |-> dir, name |-> name, stamp |-> stamp, ext |-> ext]

\* DEFAULT_IMAGE_PATH = os.path.join(IMAGES_DIR, DEFAULT_IMAGE_NAME)
DEFAULT_IMAGE_PATH == Path("images", "apple_remote_original", -1, "jpg")

UploadIdle ==
    /\ CURRENT_IMAGE_PATH = DEFAULT_IMAGE_PATH
    /\ clock = 0
    /\ uploads = {}
    /\ upload_log = <<>>

OptimizerIdle ==
    /\ opt_arg = None
    /\ iteration = 0
    /\ history = <<>>
    /\ best_similarity = 0
    /\ best_svg = None
    /\ opt_ret = None
    /\ opt_raised = FALSE

ServicesIdle ==
    /\ SvgIdle
    /\ shadow_prev = None
    /\ HandlerIdle
    /\ UploadIdle
    /\ OptimizerIdle

Init ==
    /\ contours \in UNION {[1..n -> Catalog] : n \in 0..MaxContours}
    /\ info = <<>>
    /\ all_contours = <<>>
    /\ circular_regions = <<>>
    /\ small_dots = <<>>
    /\ buttons = <<>>
    /\ pc = "extract"
    /\ result = <<>>
    /\ raised = FALSE
    /\ shape_arg = NoArg
    /\ shape_ret = NoShape
    /\ run = 1
    /\ prev_result = <<>>
    /\ EstimatorsIdle
    /\ ServicesIdle

Next ==
    \/ ExtractContours
    \/ SelectBody
    \/ DetectCircular
    \/ SelectCircleControl
    \/ FilterSmallDots
    \/ AssignButtons
    \/ FilterUnknown
    \/ AnnotateShapes
    \/ Return

Spec == Init /\ [][Next]_vars

----------------------------------------------------------------------------
(* Direct calls of classify_shape on one contour_info dict.  The dict is   *)
(* built as detect_all_contours builds it, from a contour whose measures   *)
(* straddle every threshold of the decision list.                          *)

ShapeBoxes == {<<100, 30>>, <<30, 100>>, <<33, 100>>, <<40, 40>>, <<28, 40>>,
               <<52, 40>>, <<54, 40>>, <<56, 40>>}
ShapeFills == {50, 60, 70, 75, 80}
ShapeCircularities == {60, 70, 85, 86}
ShapeConvexities == {50, 70, 85}
ShapeVertices == {3, 4, 8}
\* <<len(contour), len(hull), rows of convexityDefects, it raises>>
ShapeHulls == {<<8, 4, 4, FALSE>>, <<12, 8, 4, FALSE>>, <<12, 8, 3, FALSE>>,
               <<12, 8, 4, TRUE>>, <<12, 3, 0, FALSE>>}

ShapeArgs ==
    {[ContourInfo(0, [Contour(0, 0, b[1], b[2], (b[1] * b[2] * f) \div 50,
                              ci, cv, b[2] \div 2, hl[1], v, hl[2], hl[3])
                        EXCEPT !.defects_raise = hl[4]], -1)
        EXCEPT !.type = t] :
       b \in ShapeBoxes, f \in ShapeFills, ci \in ShapeCircularities,
       cv \in ShapeConvexities, v \in ShapeVertices, hl \in ShapeHulls,
       t \in {"body", "button"}}

InitShape ==
    /\ contours = <<>>
    /\ info = <<>>
    /\ all_contours = <<>>
    /\ circular_regions = <<>>
    /\ small_dots = <<>>
    /\ buttons = <<>>
    /\ pc = "call"
    /\ result = <<>>
    /\ raised = FALSE
    /\ shape_arg \in ShapeArgs
    /\ shape_ret = NoShape
    /\ run = 1
    /\ prev_result = <<>>
    /\ EstimatorsIdle
    /\ ServicesIdle

\* shape_type = self.classify_shape(contour_info)
CallClassifyShape ==
    /\ pc = "call"
    /\ shape_ret' = ClassifyShape(shape_arg)
    /\ pc' = "returned"
    /\ UNCHANGED <<contours, info, all_contours, circular_regions, small_dots,
                   buttons, result, raised, shape_arg, run, prev_result,
                   estimatorVars,
                   serviceVars>>

NextShape == CallClassifyShape

SpecShape == InitShape /\ [][NextShape]_vars

----------------------------------------------------------------------------
(* Properties of the list returned by detect_all_contours *)

Roles == {"body", "circle_control", "button", "small_dot"}

ResultOfType(t) == {k \in 1..Len(result) : result[k].type = t}

InfoOfType(t) == {i \in DOMAIN info : info[i].type = t}

\* circular candidate, as the classifier's contract states it
ClaimCandidate(ci) ==
    /\ 60 <= ci.aspect_ratio /\ ci.aspect_ratio <= 140
    /\ ci.circularity > 40
    /\ ci.convexity > 75

\* non-body circular candidates of area >= 500
DiscCandidates ==
    {i \in DOMAIN info : /\ info[i].type # "body"
                         /\ ClaimCandidate(info[i])
                         /\ info[i].area >= 500}

\* C1: a non-empty returned list holds exactly one 'body' region, and no
\* returned region has a larger area than it.
C1_OneBodyOfMaxArea ==
    (pc = "done" /\ result # <<>>) =>
        /\ Cardinality(ResultOfType("body")) = 1
        /\ \A b \in ResultOfType("body") : \A k \in 1..Len(result) :
               result[k].area <= result[b].area

\* the body was not the first contour traced and three more regions came back
C1_Witness ==
    /\ pc = "done"
    /\ Len(result) = 4
    /\ \E b \in ResultOfType("body") : result[b].contour_id # 0

\* C2: the 'button' regions of the returned list appear in non-decreasing
\* center_y order.
C2_ButtonsTopToBottom ==
    pc = "done" =>
        \A j \in ResultOfType("button") : \A k \in ResultOfType("button") :
            j < k => result[j].center_y <= result[k].center_y

\* C3: every returned 'small_dot' lies at a distance below 1.2 x radius from
\* the centre of a returned 'circle_control'.
C3_SmallDotsNearCircleControl ==
    pc = "done" =>
        \A d \in ResultOfType("small_dot") :
            \E c \in ResultOfType("circle_control") :
                25 * Distance2(result[d].bounding_box, result[c].bounding_box)
                < 36 * CircleRadius(result[c].bounding_box)
                     * CircleRadius(result[c].bounding_box)

IsRemoteScene ==
    /\ Len(contours) = 4
    /\ Range(contours) = {BodyRect, Disc80, DiscTop, DiscBot}

\* C4: with k >= 1 disc-candidates exactly one region is 'circle_control', it
\* is a disc-candidate of the largest area, the other disc-candidates are
\* 'button', all of them are returned; a body with an 80x80 disc and two
\* 40x40 discs gives 1 body, 1 circle_control (the 80x80), 2 buttons, 0 dots.
C4_LargestDiscIsCircleControl ==
    (pc = "done" /\ DiscCandidates # {}) =>
        /\ Cardinality(InfoOfType("circle_control")) = 1
        /\ InfoOfType("circle_control") \subseteq DiscCandidates
        /\ \A c \in InfoOfType("circle_control") : \A d \in DiscCandidates :
               info[d].area <= info[c].area
        /\ \A d \in DiscCandidates :
               /\ d \notin InfoOfType("circle_control") => info[d].type = "button"
               /\ \E k \in 1..Len(result) : result[k] = info[d]
        /\ IsRemoteScene =>
               /\ Cardinality(ResultOfType("body")) = 1
               /\ \A c \in ResultOfType("circle_control") :
                      result[c].contour = Disc80
               /\ Cardinality(ResultOfType("button")) = 2
               /\ ResultOfType("small_dot") = {}

C4_Witness ==
    /\ pc = "done"
    /\ IsRemoteScene
    /\ Cardinality(DiscCandidates) = 3
    /\ Cardinality(ResultOfType("button")) = 2

\* C5: every returned region has a type among body, circle_control, button
\* and small_dot.
C5_OnlyClassifiedReturned ==
    pc = "done" => \A k \in 1..Len(result) : result[k].type \in Roles

\* a rejected dot and a never-classified region were dropped, others returned
C5_Witness ==
    /\ pc = "done"
    /\ Len(result) >= 2
    /\ \E d \in Range(small_dots) : info[d].type = "unknown"
    /\ \E i \in DOMAIN info : i \notin Range(small_dots) /\ info[i].type = "unknown"

\* C6 as stated: every returned button or small_dot has an area strictly
\* below the body's area.
C6_StrictlyBelowBody ==
    pc = "done" =>
        \A b \in ResultOfType("body") :
            \A k \in ResultOfType("button") \cup ResultOfType("small_dot") :
                result[k].area < result[b].area

\* C6 amended: every returned button or small_dot has an area not above the
\* body's area.
C6_NotAboveBody ==
    pc = "done" =>
        \A b \in ResultOfType("body") :
            \A k \in ResultOfType("button") \cup ResultOfType("small_dot") :
                result[k].area <= result[b].area

\* a button whose truncated area equals the body's, from unequal raw areas
C6_Witness ==
    /\ pc = "done"
    /\ \E b \in ResultOfType("body") : \E k \in ResultOfType("button") :
           /\ result[k].area = result[b].area
           /\ result[k].contour.area2 # result[b].contour.area2

\* C7 as stated: once a region's type is body, circle_control, button or
\* small_dot, no step changes it.
C7_TypeAssignedOnce ==
    [][\A i \in DOMAIN info :
          info[i].type \in Roles => info'[i].type = info[i].type]_vars

\* C7 amended: a type of body, circle_control or button is never changed, and
\* a small_dot is only ever changed to 'unknown' (the dot is rejected).
C7_RolesFinalDotsProvisional ==
    [][\A i \in DOMAIN info :
          /\ info[i].type \in {"body", "circle_control", "button"}
                => info'[i].type = info[i].type
          /\ info[i].type = "small_dot"
                => info'[i].type \in {"small_dot", "unknown"}]_vars

\* the dot filter has run: one dot was kept and one was rejected
C7_Witness ==
    /\ pc = "buttons"
    /\ \E d \in Range(small_dots) : info[d].type = "unknown"
    /\ \E d \in Range(small_dots) : info[d].type = "small_dot"

\* C8: when no traced contour has an area of 10 or more (none at all
\* included), nothing is raised and the returned list is empty.
C8_NoContoursEmptyList ==
    (\A k \in 1..Len(contours) : contours[k].area2 < 20) =>
        /\ ~raised
        /\ pc = "done" => result = <<>>

C8_Witness ==
    /\ pc = "done"
    /\ Len(contours) >= 2
    /\ \A k \in 1..Len(contours) : contours[k].area2 < 20
    /\ result = <<>>

\* C9: when a contour is retained and no non-body region is a circular
\* candidate, nothing is raised and the returned list is the body alone.
C9_OnlyBodyWithoutCandidates ==
    (/\ \E k \in 1..Len(contours) : contours[k].area2 >= 20
     /\ pc \notin {"extract", "body"}
     /\ \A i \in DOMAIN info :
            info[i].type # "body" => ~ClaimCandidate(info[i]))
    => /\ ~raised
       /\ pc = "done" => /\ Len(result) = 1
                         /\ result[1].type = "body"

\* several retained regions, none a candidate: glyph and plus icon dropped
C9_Witness ==
    /\ pc = "done"
    /\ Cardinality(DOMAIN info) >= 3
    /\ \E i \in DOMAIN info : info[i].contour = Plus
    /\ \A i \in DOMAIN info :
           info[i].type # "body" => ~ClaimCandidate(info[i])
    /\ Len(result) = 1

----------------------------------------------------------------------------
(* Properties of classify_shape *)

\* the decision list as the shape-inference contract states it
StatedDecisionList(ci) ==
    IF ci.type = "body" THEN "rectangle"
    ELSE IF ci.circularity > 85 THEN "circle"
    ELSE IF (ci.aspect_ratio > 300 \/ ci.aspect_ratio < 33) /\ ci.extent > 50
         THEN "line"
    ELSE IF ci.contour.vertices = 3 THEN "triangle"
    ELSE IF ci.contour.vertices = 4 /\ 2 * ci.contour.area2 > 3 * ci.contour.w * ci.contour.h
         THEN "rectangle"
    ELSE IF /\ 60 < ci.circularity /\ ci.circularity < 85
            /\ ci.extent > 70
            /\ 70 < ci.aspect_ratio /\ ci.aspect_ratio < 140
         THEN "rectangle"
    ELSE IF /\ ci.contour.n_defects >= 4
            /\ 70 < ci.aspect_ratio /\ ci.aspect_ratio < 130
            /\ 50 < ci.convexity /\ ci.convexity < 85
         THEN "cross"
    ELSE "complex"

\* the same list, the cross rule requiring in addition a contour of more
\* than 10 points, a hull of more than 3 points and a convexity-defect
\* computation that does not raise
GuardedDecisionList(ci) ==
    IF ci.type = "body" THEN "rectangle"
    ELSE IF ci.circularity > 85 THEN "circle"
    ELSE IF (ci.aspect_ratio > 300 \/ ci.aspect_ratio < 33) /\ ci.extent > 50
         THEN "line"
    ELSE IF ci.contour.vertices = 3 THEN "triangle"
    ELSE IF ci.contour.vertices = 4 /\ 2 * ci.contour.area2 > 3 * ci.contour.w * ci.contour.h
         THEN "rectangle"
    ELSE IF /\ 60 < ci.circularity /\ ci.circularity < 85
            /\ ci.extent > 70
            /\ 70 < ci.aspect_ratio /\ ci.aspect_ratio < 140
         THEN "rectangle"
    ELSE IF /\ ci.contour.n_points > 10
            /\ ci.contour.n_hull > 3
            /\ ~ci.contour.defects_raise
            /\ ci.contour.n_defects >= 4
            /\ 70 < ci.aspect_ratio /\ ci.aspect_ratio < 130
            /\ 50 < ci.convexity /\ ci.convexity < 85
         THEN "cross"
    ELSE "complex"

\* C10 as stated: classify_shape returns what the stated decision list
\* gives, and no further condition decides the result.
C10_StatedDecisionList ==
    pc = "returned" => shape_ret = StatedDecisionList(shape_arg)

\* C10 amended: classify_shape returns what the decision list gives when its
\* cross rule also requires len(contour) > 10, len(hull) > 3 and a
\* convexityDefects call that does not raise.
C10_GuardedDecisionList ==
    pc = "returned" => shape_ret = GuardedDecisionList(shape_arg)

\* four defects, square box, moderate convexity, but only 8 contour points
C10_Witness ==
    /\ pc = "returned"
    /\ shape_ret = "complex"
    /\ shape_arg.contour.n_defects >= 4
    /\ shape_arg.contour.n_points <= 10
    /\ ~shape_arg.contour.defects_raise
    /\ 70 < shape_arg.aspect_ratio /\ shape_arg.aspect_ratio < 130
    /\ 50 < shape_arg.convexity /\ shape_arg.convexity < 85

----------------------------------------------------------------------------
(* detect_corner_radius.  The argument is a contour_info dict: its         *)
(* bounding box, and its contour, of which the model keeps what the method *)
(* reads: None or the number of points, and for each corner region the     *)
(* number of contour points in it and the integer part of the 25th         *)
(* percentile of their distances to the corner.                            *)

\* detect_all_contours and classify_shape are not running
ClassifierIdle ==
    /\ contours = <<>>
    /\ info = <<>>
    /\ all_contours = <<>>
    /\ circular_regions = <<>>
    /\ small_dots = <<>>
    /\ buttons = <<>>
    /\ result = <<>>
    /\ raised = FALSE
    /\ shape_arg = NoArg
    /\ shape_ret = NoShape
    /\ run = 1
    /\ prev_result = <<>>

\* sides of the bounding boxes are multiples of 12 up to 12 * MaxSideSteps
MaxSideSteps == 3

Min(a, b) == IF a <= b THEN a ELSE b

\* integer part of the square root
ISqrt(n) == CHOOSE r \in 0..n : r * r <= n /\ (r + 1) * (r + 1) > n

corner_names == {"top_left", "top_right", "bottom_left", "bottom_right"}

\* int(v * 0.08)
EightPercent(v) == (8 * v) \div 100

\* default_radius = max(5, min(int(min_side * 0.08), 50))
DefaultRadius(w, h) == Max(5, Min(EightPercent(Min(w, h)), 50))

\* the clamp without its lower limit
ClampRadiusNoFloor(radius, w, h) == Min(radius, Min(w, h) \div 3)

\* radius = max(5, min(radius, min(w, h) // 3))
ClampRadius(radius, w, h) == Max(5, Min(radius, Min(w, h) \div 3))

\* corner_size = min(w // 6, h // 6)
CornerSize(w, h) == Min(w \div 6, h \div 6)

\* radius of one corner: the default with fewer than 5 points in the corner
\* region, else int(np.percentile(distances, 25)); then the clamp
CornerRadius(corner, w, h) ==
    LET radius == IF corner.n_points < 5
                  THEN EightPercent(Min(w, h))
                  ELSE corner.q1
    IN  ClampRadius(radius, w, h)

SumRadii(r) ==
    r["top_left"] + r["top_right"] + r["bottom_left"] + r["bottom_right"]

SumSquares(r) ==
    r["top_left"] * r["top_left"] + r["top_right"] * r["top_right"]
    + r["bottom_left"] * r["bottom_left"] + r["bottom_right"] * r["bottom_right"]

\* avg_radius = int(np.mean(radii_values))
AvgRadius(r) == SumRadii(r) \div 4

\* use_uniform = (std_radius < avg_radius * 0.2).  With S the sum and Q the
\* sum of squares of the four radii, np.std is sqrt(4Q - S*S) / 4, so the
\* test is 25 * (4Q - S*S) < 16 * avg_radius^2.
UseUniform(r) ==
    25 * (4 * SumSquares(r) - SumRadii(r) * SumRadii(r))
        < 16 * AvgRadius(r) * AvgRadius(r)

\* the contour points of a corner region lie within corner_size of the
\* corner in x and in y, so the percentile is at most sqrt(2) * corner_size
CornerInputs(w, h) ==
    {[n_points |-> 4, q1 |-> 0]}
    \cup {[n_points |-> 5, q1 |-> q] :
            q \in 0..ISqrt(2 * CornerSize(w, h) * CornerSize(w, h))}

\* sides of the bounding boxes
Sides == {12 * k : k \in 1..MaxSideSteps}

\* contour is None, has fewer than 4 points, or has points in the corners
IsCornerArg(arg, w, h) ==
    \/ arg = [bounding_box |-> <<0, 0, w, h>>, contour |-> None]
    \/ arg = [bounding_box |-> <<0, 0, w, h>>,
              contour |-> [n_points |-> 3,
                           corners |-> [c \in corner_names |->
                                           [n_points |-> 0, q1 |-> 0]]]]
    \/ \E cs \in [corner_names -> CornerInputs(w, h)] :
            arg = [bounding_box |-> <<0, 0, w, h>>,
                   contour |-> [n_points |-> 20, corners |-> cs]]

InitCorner ==
    /\ ClassifierIdle
    /\ ServicesIdle
    /\ \E w \in Sides, h \in Sides : IsCornerArg(corner_arg, w, h)
    /\ corner_ret = None
    /\ shadow_arg = None
    /\ center_samples = <<>>
    /\ shadow_ret = None
    /\ thresholded = None
    /\ thresh_otsu = None
    /\ main_arg = None
    /\ valid_contours = <<>>
    /\ main_ret = None
    /\ pc = "corner"

\* detect_corner_radius(contour_info)
DetectCornerRadius ==
    /\ pc = "corner"
    /\ LET w == corner_arg.bounding_box[3]
           h == corner_arg.bounding_box[4]
           contour == corner_arg.contour
       IN  IF contour = None \/ contour.n_points < 4
           THEN corner_ret' =
                    [uniform |-> DefaultRadius(w, h),
                     corners |-> [c \in corner_names |-> DefaultRadius(w, h)],
                     use_uniform |-> TRUE]
           ELSE LET corner_radii ==
                        [c \in corner_names |->
                            CornerRadius(contour.corners[c], w, h)]
                IN  corner_ret' =
                        [uniform |-> AvgRadius(corner_radii),
                         corners |-> corner_radii,
                         use_uniform |-> UseUniform(corner_radii)]
    /\ pc' = "cornered"
    /\ UNCHANGED <<classifierVars, corner_arg, shadow_arg, center_samples,
                   shadow_ret, thresholded, thresh_otsu, main_arg,
                   valid_contours, main_ret,
                   serviceVars>>

NextCorner == DetectCornerRadius

SpecCorner == InitCorner /\ [][NextCorner]_vars

----------------------------------------------------------------------------
(* Properties of detect_corner_radius *)

\* every radius of the returned dict
ReportedRadii ==
    {corner_ret.uniform} \cup {corner_ret.corners[c] : c \in corner_names}

MinSide == Min(corner_arg.bounding_box[3], corner_arg.bounding_box[4])

\* C11 as stated: every reported radius (the four corner radii and the
\* uniform radius) lies in [5, min(width,height)/3], for every bounding box
\* and on every path.
C11_RadiusWithinFiveAndThird ==
    pc = "cornered" =>
        \A r \in ReportedRadii : 5 <= r /\ 3 * r <= MinSide

\* C11 amended: every reported radius is at least 5 and at most the larger of
\* 5 and min(width,height)//3; it is within [5, min(width,height)/3] whenever
\* min(width,height) >= 15.
C11_RadiusAtLeastFiveAtMostThird ==
    pc = "cornered" =>
        \A r \in ReportedRadii :
            /\ 5 <= r
            /\ r <= Max(5, MinSide \div 3)
            /\ MinSide >= 15 => 3 * r <= MinSide

\* a 12-pixel-wide box whose corner has fewer than 5 contour points: the
\* default 8% is 0, the clamp reports 5, more than a third of the side
C11_Witness ==
    /\ pc = "cornered"
    /\ MinSide = 12
    /\ corner_arg.contour # None
    /\ corner_arg.contour.n_points >= 4
    /\ corner_arg.contour.corners["top_left"].n_points < 5
    /\ corner_ret.corners["top_left"] = 5

\* C12: use_uniform is true exactly when the standard deviation of the four
\* clamped corner radii is less than 20% of their mean.  With S the sum and
\* Q the sum of squares of the radii the standard deviation is
\* sqrt(4Q - S*S) / 4 and the mean S / 4, so the test is
\* 25 * (4Q - S*S) < S*S.
C12_UniformIffStdBelowFifthOfMean ==
    pc = "cornered" =>
        LET r == corner_ret.corners
        IN  corner_ret.use_uniform
                <=> 25 * (4 * SumSquares(r) - SumRadii(r) * SumRadii(r))
                        < SumRadii(r) * SumRadii(r)

----------------------------------------------------------------------------
(* detect_shadow.  The image is a synthetic scene: a uniform background,  *)
(* and inside the region's bounding box a uniform surface with a band of   *)
(* its own brightness along the top edge and one along the bottom edge.    *)
(* Brightnesses are 0..255.  Averages of samples are kept in twentieths    *)
(* of a brightness unit, which is exact for the 10 centre samples and the  *)
(* 20 samples of an edge.                                                  *)

\* default arguments of detect_shadow
sample_distance == 10

num_samples == 20

\* for _ in range(10)
num_center_samples == 10

\* deepest band of the scenes
MaxBand == 12

\* gray[py, px]
Gray(img, px, py) ==
    LET x == img.bounding_box[1]
        y == img.bounding_box[2]
        w == img.bounding_box[3]
        h == img.bounding_box[4]
    IN  IF px < x \/ px >= x + w \/ py < y \/ py >= y + h
        THEN img.background
        ELSE IF py < y + img.top_depth
        THEN img.top_band
        ELSE IF py >= y + h - img.bottom_depth
        THEN img.bottom_band
        ELSE img.surface

\* 0 <= px < img_w and 0 <= py < img_h
InImage(img, px, py) ==
    0 <= px /\ px < img.img_w /\ 0 <= py /\ py < img.img_h

\* int(len * (i + 0.5) / num_samples)
SampleOffset(len, i) == (len * (2 * i + 1)) \div (2 * num_samples)

RECURSIVE SumSeq(_)
SumSeq(s) == IF s = <<>> THEN 0 ELSE Head(s) + SumSeq(Tail(s))

RECURSIVE SampleFrom(_, _, _, _)
\* the brightnesses appended for the sample positions i..num_samples-1,
\* pos(i) being the pixel <<px, py>> read for sample i
SampleFrom(img, pos, i, n) ==
    IF i >= n THEN <<>>
    ELSE (IF InImage(img, pos[i][1], pos[i][2])
          THEN <<Gray(img, pos[i][1], pos[i][2])>>
          ELSE <<>>) \o SampleFrom(img, pos, i + 1, n)

\* np.mean(samples) if len(samples) > 0 else fallback, in twentieths
Mean20(samples, fallback) ==
    IF Len(samples) > 0
    THEN (20 * SumSeq(samples)) \div Len(samples)
    ELSE fallback

\* the baseline taken from the first sample alone (not the code's)
CenterBrightnessOfFirst(samples) ==
    IF Len(samples) > 0 THEN 20 * samples[1] ELSE 20 * 128

\* center_brightness, in twentieths
CenterBrightness(samples) == Mean20(samples, 20 * 128)

\* direction_info: inner_avg and outer_avg of the four edges, in twentieths
DirectionInfo(img, center) ==
    LET x == img.bounding_box[1]
        y == img.bounding_box[2]
        w == img.bounding_box[3]
        h == img.bounding_box[4]
        d == sample_distance
        Avg(pos) == Mean20(SampleFrom(img, pos, 0, num_samples), center)
        Along(dy) == [i \in 0..(num_samples - 1) |->
                         <<x + SampleOffset(w, i), dy>>]
        Down(dx) == [i \in 0..(num_samples - 1) |->
                        <<dx, y + SampleOffset(h, i)>>]
    IN  [top    |-> [inner_avg |-> Avg(Along(y + d)),
                     outer_avg |-> Avg(Along(y - d))],
         bottom |-> [inner_avg |-> Avg(Along(y + h - 1 - d)),
                     outer_avg |-> Avg(Along(y + h - 1 + d))],
         left   |-> [inner_avg |-> Avg(Down(x + d)),
                     outer_avg |-> Avg(Down(x - d))],
         right  |-> [inner_avg |-> Avg(Down(x + w - 1 - d)),
                     outer_avg |-> Avg(Down(x + w - 1 + d))]]

\* the list with the threshold included (not the code's)
InnerDarknessListAtLeast(direction_info, center) ==
    LET darkness == <<center - direction_info.top.inner_avg,
                      center - direction_info.bottom.inner_avg>>
        Flagged(v) == v >= 20 * 10
    IN  SelectSeq(darkness, Flagged)

\* the list taken over all four edges (not the code's)
InnerDarknessListFourEdges(direction_info, center) ==
    LET darkness == <<center - direction_info.top.inner_avg,
                      center - direction_info.bottom.inner_avg,
                      center - direction_info.left.inner_avg,
                      center - direction_info.right.inner_avg>>
        Flagged(v) == v > 20 * 10
    IN  SelectSeq(darkness, Flagged)

\* the values of center - inner_avg that exceed 10, top then bottom
InnerDarknessList(direction_info, center) ==
    LET darkness == <<center - direction_info.top.inner_avg,
                      center - direction_info.bottom.inner_avg>>
        Flagged(v) == v > 20 * 10
    IN  SelectSeq(darkness, Flagged)

\* the values of 255 - outer_avg that exceed 30, in the order top, bottom,
\* left, right
OuterDarknessList(direction_info) ==
    LET darkness == <<20 * 255 - direction_info.top.outer_avg,
                      20 * 255 - direction_info.bottom.outer_avg,
                      20 * 255 - direction_info.left.outer_avg,
                      20 * 255 - direction_info.right.outer_avg>>
        Flagged(v) == v > 20 * 30
    IN  SelectSeq(darkness, Flagged)

\* the strength that takes the minimum before the mean (not the code's)
StrengthOfEdgeMinima(darkness_list, full) ==
    LET Capped(k) == Min(darkness_list[k], 20 * full)
    IN  IF Len(darkness_list) = 0
        THEN [num |-> 0, den |-> 1]
        ELSE [num |-> SumSeq([k \in 1..Len(darkness_list) |-> Capped(k)]),
              den |-> 20 * full * Len(darkness_list)]

\* min(1.0, np.mean(darkness_list) / full), 0.0 for the empty list: the
\* fraction num / den
Strength(darkness_list, full) ==
    IF Len(darkness_list) = 0
    THEN [num |-> 0, den |-> 1]
    ELSE IF SumSeq(darkness_list) >= 20 * full * Len(darkness_list)
    THEN [num |-> 1, den |-> 1]
    ELSE [num |-> SumSeq(darkness_list),
          den |-> 20 * full * Len(darkness_list)]

\* max(inner_strength, outer_strength)
MaxStrength(a, b) == IF a.num * b.den >= b.num * a.den THEN a ELSE b

\* the blur radius rounded to the nearest integer (not the code's)
BlurRadiusRounded(a, b) ==
    LET m == MaxStrength(a, b)
    IN  (4 * m.den + 6 * m.num + m.den) \div (2 * m.den)

\* int(2 + max(inner_strength, outer_strength) * 3)
BlurRadius(a, b) ==
    LET m == MaxStrength(a, b)
    IN  (2 * m.den + 3 * m.num) \div m.den

\* round(strength, 2) in hundredths; a value exactly halfway between two
\* hundredths goes to either, as the binary value decides
Round2(strength) ==
    LET q == (100 * strength.num) \div strength.den
        r == (100 * strength.num) % strength.den
    IN  IF 2 * r < strength.den THEN {q}
        ELSE IF 2 * r > strength.den THEN {q + 1}
        ELSE {q, q + 1}

RECURSIVE Draws(_, _)
\* the lists of n values drawn from a set of levels, up to their order
Draws(levels, n) ==
    IF levels = {}
    THEN IF n = 0 THEN {<<>>} ELSE {}
    ELSE LET l == CHOOSE v \in levels : \A u \in levels : v <= u
         IN  UNION {{[i \in 1..k |-> l] \o t : t \in Draws(levels \ {l}, n - k)} :
                    k \in 0..n}

\* cx = np.random.randint(x + w//4, x + 3*w//4), cy likewise: the
\* brightnesses ten such pixels can have
CenterDraws(img) ==
    LET x == img.bounding_box[1]
        y == img.bounding_box[2]
        w == img.bounding_box[3]
        h == img.bounding_box[4]
        levels == {Gray(img, cx, cy) :
                     cx \in (x + w \div 4)..(x + (3 * w) \div 4 - 1),
                     cy \in (y + h \div 4)..(y + (3 * h) \div 4 - 1)}
    IN  Draws(levels, num_center_samples)

\* the scenes: a square region in a 100x100 image
IsShadowArg(img) ==
    \E side \in {20, 40},
       corner \in {<<30, 30>>, <<30, 5>>, <<5, 30>>},
       background \in {255, 225, 215, 55},
       top_depth \in {0, 5, MaxBand},
       bottom_depth \in {0, 5, MaxBand},
       top_band \in {100, 186, 190},
       bottom_band \in {100, 186, 190} :
        img = [img_w |-> 100, img_h |-> 100,
               bounding_box |-> <<corner[1], corner[2], side, side>>,
               background |-> background,
               surface |-> 200,
               top_depth |-> top_depth, top_band |-> top_band,
               bottom_depth |-> bottom_depth, bottom_band |-> bottom_band]

InitShadow ==
    /\ ClassifierIdle
    /\ ServicesIdle
    /\ corner_arg = None
    /\ corner_ret = None
    /\ IsShadowArg(shadow_arg)
    /\ center_samples = <<>>
    /\ shadow_ret = None
    /\ thresholded = None
    /\ thresh_otsu = None
    /\ main_arg = None
    /\ valid_contours = <<>>
    /\ main_ret = None
    /\ pc = "shadow"

\* the dict returned once the samples are taken
ShadowResult(direction_info, center_brightness) ==
    LET inner_darkness_list ==
            InnerDarknessList(direction_info, center_brightness)
        outer_darkness_list == OuterDarknessList(direction_info)
        inner_strength == Strength(inner_darkness_list, 50)
        outer_strength == Strength(outer_darkness_list, 100)
    IN  {[has_inner_shadow |-> Len(inner_darkness_list) > 0,
          has_outer_shadow |-> Len(outer_darkness_list) > 0,
          inner_strength |-> inner_rounded,
          outer_strength |-> outer_rounded,
          blur_radius |-> BlurRadius(inner_strength, outer_strength),
          direction_info |-> direction_info] :
            inner_rounded \in Round2(inner_strength),
            outer_rounded \in Round2(outer_strength)}

\* detect_shadow(contour_info)
DetectShadow ==
    /\ pc = "shadow"
    /\ \E samples \in CenterDraws(shadow_arg) :
        \E direction_info \in
               {DirectionInfo(shadow_arg, CenterBrightness(samples))} :
            /\ center_samples' = samples
            /\ shadow_ret' \in
                   ShadowResult(direction_info, CenterBrightness(samples))
    /\ pc' = "shadowed"
    /\ UNCHANGED <<classifierVars, corner_arg, corner_ret, shadow_arg,
                   thresholded, thresh_otsu, main_arg,
                   valid_contours, main_ret,
                   serviceVars>>

NextShadow == DetectShadow

SpecShadow == InitShadow /\ [][NextShadow]_vars

----------------------------------------------------------------------------
(* Properties of detect_shadow.  Brightness differences are in twentieths, *)
(* returned strengths in hundredths.                                       *)

\* the centre baseline of the call
Baseline == CenterBrightness(center_samples)

\* centre - inside brightness of the top and of the bottom edge
TopDarkness == Baseline - shadow_ret.direction_info.top.inner_avg

BottomDarkness == Baseline - shadow_ret.direction_info.bottom.inner_avg

\* 255 - outside brightness of the four edges
OutsideDarkness ==
    [e \in {"top", "bottom", "left", "right"} |->
        20 * 255 - shadow_ret.direction_info[e].outer_avg]

Abs(v) == IF v >= 0 THEN v ELSE -v

C14_OuterStrengthMeanOfEdgeMinima ==
    pc = "shadowed" =>
        LET flagged == {e \in DOMAIN OutsideDarkness :
                            OutsideDarkness[e] > 20 * 30}
            Capped(e) == IF e \in flagged
                         THEN Min(OutsideDarkness[e], 20 * 100)
                         ELSE 0
            sum == Capped("top") + Capped("bottom") + Capped("left")
                   + Capped("right")
            n == Cardinality(flagged)
        IN  /\ shadow_ret.has_outer_shadow <=> flagged # {}
            /\ Abs(20 * n * shadow_ret.outer_strength - sum) <= 10 * n
            /\ 0 <= shadow_ret.outer_strength
            /\ shadow_ret.outer_strength <= 100

\* C14 amended: has_outer_shadow is true exactly when 255 - outside
\* brightness exceeds 30 on at least one of the four edges (the outside
\* brightness of an edge being the mean of its outside samples, or the
\* centre baseline when none of them lies in the image), and outer_strength
\* is min(1, D/100) rounded to two decimals, D being the mean darkness of
\* the flagged edges, and 0 without a flagged edge; it is within [0, 1].
C14_OuterStrengthMinOfEdgeMean ==
    pc = "shadowed" =>
        LET flagged == {e \in DOMAIN OutsideDarkness :
                            OutsideDarkness[e] > 20 * 30}
            Kept(e) == IF e \in flagged THEN OutsideDarkness[e] ELSE 0
            sum == Kept("top") + Kept("bottom") + Kept("left") + Kept("right")
            n == Cardinality(flagged)
        IN  /\ shadow_ret.has_outer_shadow <=> flagged # {}
            /\ Abs(20 * n * shadow_ret.outer_strength
                   - Min(sum, 20 * 100 * n)) <= 10 * n
            /\ 0 <= shadow_ret.outer_strength
            /\ shadow_ret.outer_strength <= 100

\* a region at the top border of the image on a dark background: the top
\* edge has darkness 55 (the baseline stands in for its outside samples),
\* the other three 200, and the strength is 1.0, not (0.55 + 3) / 4
C14_Witness ==
    /\ pc = "shadowed"
    /\ OutsideDarkness["top"] = 20 * 55
    /\ OutsideDarkness["bottom"] = 20 * 200
    /\ shadow_ret.has_outer_shadow
    /\ shadow_ret.outer_strength = 100

\* the strengths before they are rounded to two decimals
InnerStrength ==
    Strength(InnerDarknessList(shadow_ret.direction_info, Baseline), 50)

OuterStrength == Strength(OuterDarknessList(shadow_ret.direction_info), 100)

\* C15 as stated: blur_radius is 2 + 3 x max(inner_strength, outer_strength)
\* rounded to the nearest integer.
C15_BlurRadiusRounded ==
    pc = "shadowed" =>
        LET m == MaxStrength(InnerStrength, OuterStrength)
        IN  Abs(2 * shadow_ret.blur_radius * m.den
                - (4 * m.den + 6 * m.num)) <= m.den

\* C15 amended: blur_radius is 2 + 3 x max(inner_strength, outer_strength)
\* truncated to an integer (rounded down), taken from the strengths before
\* they are rounded to two decimals; it is one of 2, 3, 4, 5.
C15_BlurRadiusTruncated ==
    pc = "shadowed" =>
        LET m == MaxStrength(InnerStrength, OuterStrength)
        IN  /\ shadow_ret.blur_radius * m.den <= 2 * m.den + 3 * m.num
            /\ 2 * m.den + 3 * m.num < (shadow_ret.blur_radius + 1) * m.den
            /\ shadow_ret.blur_radius \in 2..5

\* strength 0.28: 2 + 0.84 is reported as 2, the nearest integer is 3
C15_Witness ==
    /\ pc = "shadowed"
    /\ shadow_ret.inner_strength = 28
    /\ shadow_ret.outer_strength = 0
    /\ shadow_ret.blur_radius = 2

\* C16: for a square region with a darker band 5 pixels deep along its top
\* and bottom edges, unchanged sides and a bright surrounding, detect_shadow
\* with its default arguments returns has_inner_shadow = true and
\* has_outer_shadow = false.  The square is taken away from the image border
\* and the surrounding is white.
C16_BandedSquareInnerShadowOnly ==
    (/\ pc = "shadowed"
     /\ shadow_arg.top_depth = 5
     /\ shadow_arg.bottom_depth = 5
     /\ shadow_arg.top_band < shadow_arg.surface
     /\ shadow_arg.bottom_band < shadow_arg.surface
     /\ shadow_arg.background = 255
     /\ shadow_arg.bounding_box[1] = 30
     /\ shadow_arg.bounding_box[2] = 30)
        => shadow_ret.has_inner_shadow /\ ~shadow_ret.has_outer_shadow

----------------------------------------------------------------------------
(* Polarity correction of the global-threshold mask, in detect_main_object *)
(* and in detect_all_contours.  A mask is the list of its pixels, each 0   *)
(* or 255; cv2.threshold can return any mask.                              *)

\* largest number of pixels of a mask
MaxPixels == 6

\* cv2.countNonZero(mask)
CountNonZero(mask) == Cardinality({i \in 1..Len(mask) : mask[i] # 0})

\* cv2.bitwise_not(mask)
BitwiseNot(mask) == [i \in 1..Len(mask) |-> 255 - mask[i]]

\* the test turned around: fewer than half of the pixels are foreground
IsMinority(mask) == 2 * CountNonZero(mask) < Len(mask)

\* cv2.countNonZero(thresh_otsu) > thresh_otsu.size / 2
IsMajority(mask) == 2 * CountNonZero(mask) > Len(mask)

InitMask ==
    /\ ClassifierIdle
    /\ ServicesIdle
    /\ corner_arg = None
    /\ corner_ret = None
    /\ shadow_arg = None
    /\ center_samples = <<>>
    /\ shadow_ret = None
    /\ thresholded \in UNION {[1..n -> {0, 255}] : n \in 1..MaxPixels}
    /\ thresh_otsu = None
    /\ main_arg = None
    /\ valid_contours = <<>>
    /\ main_ret = None
    /\ pc \in {"main_threshold", "all_threshold"}

\* _, thresh_otsu = cv2.threshold(blurred, 0, 255, THRESH_BINARY + THRESH_OTSU)
Threshold(at, next) ==
    /\ pc = at
    /\ thresh_otsu' = thresholded
    /\ pc' = next
    /\ UNCHANGED <<classifierVars, corner_arg, corner_ret, shadow_arg,
                   center_samples, shadow_ret, thresholded, main_arg,
                   valid_contours, main_ret,
                   serviceVars>>

\* if cv2.countNonZero(thresh_otsu) > thresh_otsu.size / 2:
\*     thresh_otsu = cv2.bitwise_not(thresh_otsu)
CorrectPolarity(at, next) ==
    /\ pc = at
    /\ thresh_otsu' = IF IsMajority(thresh_otsu)
                      THEN BitwiseNot(thresh_otsu)
                      ELSE thresh_otsu
    /\ pc' = next
    /\ UNCHANGED <<classifierVars, corner_arg, corner_ret, shadow_arg,
                   center_samples, shadow_ret, thresholded, main_arg,
                   valid_contours, main_ret,
                   serviceVars>>

\* detect_main_object
MainThreshold == Threshold("main_threshold", "main_polarity")

MainCorrectPolarity == CorrectPolarity("main_polarity", "main_edges")

\* detect_all_contours
AllThreshold == Threshold("all_threshold", "all_polarity")

AllCorrectPolarity == CorrectPolarity("all_polarity", "all_morph")

NextMask ==
    \/ MainThreshold
    \/ MainCorrectPolarity
    \/ AllThreshold
    \/ AllCorrectPolarity

SpecMask == InitMask /\ [][NextMask]_vars

\* C18: after polarity correction at most half of the pixels of the
\* global-threshold mask are foreground: the mask is the inverse of the
\* thresholded image if more than half of its pixels were foreground and
\* the thresholded image itself otherwise, in detect_main_object and in
\* detect_all_contours.
C18_ForegroundIsMinority ==
    pc \in {"main_edges", "all_morph"} =>
        /\ 2 * CountNonZero(thresh_otsu) <= Len(thresh_otsu)
        /\ Len(thresh_otsu) = Len(thresholded)
        /\ IF 2 * CountNonZero(thresholded) > Len(thresholded)
           THEN \A i \in 1..Len(thresholded) :
                    thresh_otsu[i] = 0 <=> thresholded[i] # 0
           ELSE thresh_otsu = thresholded

\* a mask with 4 of 5 pixels foreground was inverted in detect_all_contours
C18_Witness ==
    /\ pc = "all_morph"
    /\ Len(thresholded) = 5
    /\ CountNonZero(thresholded) = 4
    /\ CountNonZero(thresh_otsu) = 1

----------------------------------------------------------------------------
(* detect_main_object, from the point where the two cv2.findContours calls *)
(* have their results: `contours` of the merged mask for the primary pass  *)
(* and `edge_contours` of the low-threshold Canny edges for the fallback.  *)
(* A traced contour carries cv2.contourArea, cv2.boundingRect, the area of *)
(* its convex hull, and the lengths of its two cv2.approxPolyDP            *)
(* approximations.  The contours of the scenes have aspect ratios, extents *)
(* and convexities that are whole hundredths, which is the unit of these   *)
(* ratios here.                                                            *)

\* largest number of contours of each findContours call
MaxCandidates == 2

Traced(x, y, w, h, area, hull_area, n, n3, n1) ==
    [bounding_rect |-> <<x, y, w, h>>, area |-> area, hull_area |-> hull_area,
     n_points |-> n, n_approx_003 |-> n3, n_approx_001 |-> n1]

\* a 200x200 image: a product, a product in the top-left corner, a flat
\* product near the bottom edge, a wide bar, a hollow outline, a speck
Product   == Traced(55,  25,  90, 150, 10800, 12000, 40, 8, 12)
ProductTL == Traced( 0,   0,  80, 160,  6400,  8000, 30, 3,  4)
ProductFlat == Traced(10, 165, 180,  30,  4050,  4500, 30, 4,  6)
WideBar   == Traced(20,  90, 160,  20,  1600,  2000, 12, 2,  2)
Outline   == Traced(50,  50, 100, 100,  4000,  8000, 60, 9, 14)
Dust      == Traced( 5,   5,  20,  20,   400,   400,  8, 4,  4)

MainCatalog == {Product, ProductTL, ProductFlat, WideBar, Outline, Dust}

\* the dict appended to valid_contours
Measured(c) ==
    LET w == c.bounding_rect[3]
        h == c.bounding_rect[4]
    IN  [contour |-> c,
         area |-> c.area,
         aspect_ratio |-> (100 * w) \div h,
         extent |-> (100 * c.area) \div (w * h),
         convexity |-> IF c.hull_area > 0
                       THEN (100 * c.area) \div c.hull_area
                       ELSE 0,
         bounding_rect |-> c.bounding_rect]

\* min_area < area < max_area, the ratios 0.03 and 0.9 of config.py
InAreaRange(c, image_area) ==
    100 * c.area > 3 * image_area /\ 10 * c.area < 9 * image_area

\* fallback criteria that ask for a fuller bounding box than the primary
IsValidFallbackFuller(c, image_area) ==
    /\ InAreaRange(c, image_area)
    /\ 10 <= Measured(c).aspect_ratio /\ Measured(c).aspect_ratio <= 800
    /\ Measured(c).extent > 85
    /\ Measured(c).convexity > 50

\* 0.1 <= aspect_ratio <= 6.0 and extent > 0.3 and convexity > 0.5
\* and area > 3000
IsValidPrimary(c, image_area) ==
    /\ InAreaRange(c, image_area)
    /\ 10 <= Measured(c).aspect_ratio /\ Measured(c).aspect_ratio <= 600
    /\ Measured(c).extent > 30
    /\ Measured(c).convexity > 50
    /\ c.area > 3000

\* 0.1 <= aspect_ratio <= 8.0 and extent > 0.2 and convexity > 0.5
IsValidFallback(c, image_area) ==
    /\ InAreaRange(c, image_area)
    /\ 10 <= Measured(c).aspect_ratio /\ Measured(c).aspect_ratio <= 800
    /\ Measured(c).extent > 20
    /\ Measured(c).convexity > 50

\* 0.5 * area_score + 0.25 * extent_score + 0.25 * convexity_score, times
\* 32000 * img_area
PrimaryScore(ci, img_area) ==
    16000 * Min(img_area, 5 * ci.area)
    + 100 * Max(0, 80 - Abs(ci.extent - 80)) * img_area
    + 80 * ci.convexity * img_area

\* 0.3 * aspect_score + 0.3 * extent_score + 0.4 * convexity_score, times
\* 3000
FallbackScore(ci) ==
    36 * Max(0, 25 - Abs(ci.aspect_ratio - 25))
    + 15 * Max(0, 60 - Abs(ci.extent - 60))
    + 12 * ci.convexity

\* contour_info['score'] = score
WithScore(ci, score) ==
    [contour |-> ci.contour, area |-> ci.area,
     aspect_ratio |-> ci.aspect_ratio, extent |-> ci.extent,
     convexity |-> ci.convexity, bounding_rect |-> ci.bounding_rect,
     score |-> score]

RECURSIVE InsertScoreDesc(_, _)
InsertScoreDesc(ci, s) ==
    IF s = <<>> THEN <<ci>>
    ELSE IF Head(s).score >= ci.score
    THEN <<Head(s)>> \o InsertScoreDesc(ci, Tail(s))
    ELSE <<ci>> \o s

RECURSIVE SortScoreDesc(_)
\* valid_contours.sort(key=lambda x: x['score'], reverse=True), stable
SortScoreDesc(s) ==
    IF s = <<>> THEN <<>>
    ELSE InsertScoreDesc(Head(s), SortScoreDesc(Tail(s)))

\* result_info with the padded size not cut at the image border (not the
\* code's)
ResultInfoUncut(best, padding, img_width, img_height) ==
    LET original_x == best.bounding_rect[1]
        original_y == best.bounding_rect[2]
        original_w == best.bounding_rect[3]
        original_h == best.bounding_rect[4]
        padded_x == Max(0, original_x - padding)
        padded_y == Max(0, original_y - padding)
    IN  [contour |-> [approximated |-> FALSE,
                      n_points |-> best.contour.n_points],
         original_rect |-> best.bounding_rect,
         padded_rect |-> <<padded_x, padded_y, original_w + 2 * padding,
                           original_h + 2 * padding>>]

\* result_info for the best of the sorted candidates
ResultInfo(best, padding, img_width, img_height) ==
    LET original_x == best.bounding_rect[1]
        original_y == best.bounding_rect[2]
        original_w == best.bounding_rect[3]
        original_h == best.bounding_rect[4]
        padded_x == Max(0, original_x - padding)
        padded_y == Max(0, original_y - padding)
        padded_w == Min(img_width - padded_x, original_w + 2 * padding)
        padded_h == Min(img_height - padded_y, original_h + 2 * padding)
        n_approx == IF best.contour.n_approx_003 < 4
                    THEN best.contour.n_approx_001
                    ELSE best.contour.n_approx_003
    IN  [contour |-> IF n_approx >= 4
                     THEN [approximated |-> TRUE, n_points |-> n_approx]
                     ELSE [approximated |-> FALSE,
                           n_points |-> best.contour.n_points],
         original_rect |-> best.bounding_rect,
         padded_rect |-> <<padded_x, padded_y, padded_w, padded_h>>]

\* the candidate lists of one call
TracedLists == UNION {[1..n -> MainCatalog] : n \in 0..MaxCandidates}

InitMain ==
    /\ ClassifierIdle
    /\ ServicesIdle
    /\ corner_arg = None
    /\ corner_ret = None
    /\ shadow_arg = None
    /\ center_samples = <<>>
    /\ shadow_ret = None
    /\ thresholded = None
    /\ thresh_otsu = None
    /\ \E cs \in TracedLists, es \in TracedLists, padding \in {0, 10} :
         main_arg = [img_width |-> 200, img_height |-> 200,
                     padding |-> padding,
                     contours |-> cs, edge_contours |-> es]
    /\ valid_contours = <<>>
    /\ main_ret = None
    /\ pc = "primary"

image_area == main_arg.img_height * main_arg.img_width

\* the dicts of the contours that pass the primary test, in list order
PrimaryCandidates(traced) ==
    LET Passes(c) == IsValidPrimary(c, image_area)
        kept == SelectSeq(traced, Passes)
    IN  [k \in 1..Len(kept) |-> Measured(kept[k])]

\* the dicts of the contours that pass the fallback test, in list order
FallbackCandidates(traced) ==
    LET Passes(c) == IsValidFallback(c, image_area)
        kept == SelectSeq(traced, Passes)
    IN  [k \in 1..Len(kept) |-> Measured(kept[k])]

\* lines 129-171: the primary filter, then `if len(valid_contours) > 0`
PrimaryPass ==
    /\ pc = "primary"
    /\ valid_contours' = PrimaryCandidates(main_arg.contours)
    /\ pc' = IF Len(valid_contours') > 0 THEN "select" ELSE "fallback"
    /\ UNCHANGED <<classifierVars, corner_arg, corner_ret, shadow_arg,
                   center_samples, shadow_ret, thresholded, thresh_otsu,
                   main_arg, main_ret,
                   serviceVars>>

\* lines 174-227: score, sort, pad, approximate, return result_info
SelectPrimary ==
    /\ pc = "select"
    /\ valid_contours' =
           SortScoreDesc([k \in 1..Len(valid_contours) |->
               WithScore(valid_contours[k],
                         PrimaryScore(valid_contours[k], image_area))])
    /\ main_ret' = ResultInfo(valid_contours'[1], main_arg.padding,
                              main_arg.img_width, main_arg.img_height)
    /\ pc' = "done"
    /\ UNCHANGED <<classifierVars, corner_arg, corner_ret, shadow_arg,
                   center_samples, shadow_ret, thresholded, thresh_otsu,
                   main_arg,
                   serviceVars>>

\* lines 229-257: the fallback filter, then `if len(valid_contours) > 0`
FallbackPass ==
    /\ pc = "fallback"
    /\ valid_contours' = FallbackCandidates(main_arg.edge_contours)
    /\ pc' = IF Len(valid_contours') > 0 THEN "select_fallback" ELSE "none"
    /\ UNCHANGED <<classifierVars, corner_arg, corner_ret, shadow_arg,
                   center_samples, shadow_ret, thresholded, thresh_otsu,
                   main_arg, main_ret,
                   serviceVars>>

\* lines 259-296: score, sort, pad, approximate, return result_info
SelectFallback ==
    /\ pc = "select_fallback"
    /\ valid_contours' =
           SortScoreDesc([k \in 1..Len(valid_contours) |->
               WithScore(valid_contours[k],
                         FallbackScore(valid_contours[k]))])
    /\ main_ret' = ResultInfo(valid_contours'[1], main_arg.padding,
                              main_arg.img_width, main_arg.img_height)
    /\ pc' = "done"
    /\ UNCHANGED <<classifierVars, corner_arg, corner_ret, shadow_arg,
                   center_samples, shadow_ret, thresholded, thresh_otsu,
                   main_arg,
                   serviceVars>>

\* lines 298-299: return None
ReturnNone ==
    /\ pc = "none"
    /\ main_ret' = None
    /\ pc' = "done"
    /\ UNCHANGED <<classifierVars, corner_arg, corner_ret, shadow_arg,
                   center_samples, shadow_ret, thresholded, thresh_otsu,
                   main_arg, valid_contours,
                   serviceVars>>

NextMain ==
    \/ PrimaryPass
    \/ SelectPrimary
    \/ FallbackPass
    \/ SelectFallback
    \/ ReturnNone

SpecMain == InitMain /\ [][NextMain]_vars

----------------------------------------------------------------------------
(* Properties of detect_main_object *)

PrimaryValid ==
    {k \in 1..Len(main_arg.contours) :
        IsValidPrimary(main_arg.contours[k], image_area)}

FallbackValid ==
    {k \in 1..Len(main_arg.edge_contours) :
        IsValidFallback(main_arg.edge_contours[k], image_area)}

\* C19: detect_main_object returns None only after the primary pass found
\* no valid candidate and the fallback pass found none either; the fallback
\* pass runs exactly when the primary pass has no valid candidate; and every
\* contour that meets the primary criteria meets the fallback criteria.
C19_NoneOnlyAfterBothPasses ==
    /\ (pc = "done" /\ main_ret = None)
            => PrimaryValid = {} /\ FallbackValid = {}
    /\ pc \in {"fallback", "select_fallback", "none"} => PrimaryValid = {}
    /\ pc = "select" => PrimaryValid # {}
    /\ (pc = "done" /\ PrimaryValid # {})
            => main_ret # None /\ valid_contours[1].score
                                    = PrimaryScore(valid_contours[1], image_area)
    /\ \A c \in MainCatalog :
            IsValidPrimary(c, image_area) => IsValidFallback(c, image_area)

\* both passes had contours to look at, none of them valid, and the call
\* returned None
C19_Witness ==
    /\ pc = "done"
    /\ main_ret = None
    /\ Len(main_arg.contours) > 0
    /\ Len(main_arg.edge_contours) > 0
    /\ \E c \in MainCatalog : IsValidPrimary(c, image_area)

----------------------------------------------------------------------------
(* Two calls of detect_all_contours on the same image.  cv2.findContours   *)
(* is deterministic, so the second call starts from the same `contours`.   *)
(* What the first call left in its variables is still there when the       *)
(* second starts: the method has to initialise what it uses.               *)

\* largest number of contours of an image that is classified twice
MaxRepeated == 3

InitTwice ==
    /\ contours \in UNION {[1..n -> Catalog] : n \in 0..MaxRepeated}
    /\ info = <<>>
    /\ all_contours = <<>>
    /\ circular_regions = <<>>
    /\ small_dots = <<>>
    /\ buttons = <<>>
    /\ pc = "extract"
    /\ result = <<>>
    /\ raised = FALSE
    /\ shape_arg = NoArg
    /\ shape_ret = NoShape
    /\ run = 1
    /\ prev_result = <<>>
    /\ EstimatorsIdle
    /\ ServicesIdle

\* the caller keeps the list it got and calls detect_all_contours again
Rerun ==
    /\ pc = "done"
    /\ run = 1
    /\ ~raised
    /\ prev_result' = result
    /\ result' = <<>>
    /\ run' = 2
    /\ pc' = "extract"
    /\ UNCHANGED <<contours, info, all_contours, circular_regions, small_dots,
                   buttons, raised, shape_arg, shape_ret, estimatorVars,
                   serviceVars>>

NextTwice ==
    \/ Next
    \/ Rerun

SpecTwice == InitTwice /\ [][NextTwice]_vars

\* the regions of a returned list with their type and shape
Assignments(regions) ==
    {[contour_id |-> regions[k].contour_id,
      bounding_box |-> regions[k].bounding_box,
      type |-> regions[k].type,
      shape |-> regions[k].shape] : k \in 1..Len(regions)}

----------------------------------------------------------------------------
(* Properties of the parent and child references of the returned list *)

ReturnedIds == {result[k].contour_id : k \in 1..Len(result)}

\* C20 as stated: in the returned list every region's parent_id is -1 or the
\* contour_id of a region of the returned list.
C20_ParentIsReturned ==
    pc = "done" =>
        \A k \in 1..Len(result) :
            result[k].parent_id = -1 \/ result[k].parent_id \in ReturnedIds

\* C20 amended: the call returns, every region's parent_id is -1 or the
\* index of a contour that cv2.findContours traced, whether or not that
\* contour is in the returned list, and a region is among the children of a
\* returned region exactly when it is returned and its parent_id is that
\* region's contour_id.
C20_ParentIsTracedChildrenAreReturned ==
    pc = "done" =>
        /\ ~raised
        /\ \A k \in 1..Len(result) :
            /\ result[k].parent_id \in -1..(Len(contours) - 1)
            /\ Range(result[k].children)
                  = {id \in ReturnedIds :
                        info[id].parent_id = result[k].contour_id}

\* the body's outline was traced twice, the second trace is dropped as
\* unclassified, and the returned dial has it as parent
C20_Witness ==
    /\ pc = "done"
    /\ Len(result) = 2
    /\ result[1].type = "body"
    /\ result[1].contour_id = 0
    /\ result[2].type = "circle_control"
    /\ result[2].parent_id = 1
    /\ result[1].children = <<>>

----------------------------------------------------------------------------
(***************************************************************************)
(* SVGGenerator.generate_svg of src/src/svg_generator.py.                  *)
(*                                                                         *)
(* A contour handed to generate_svg is modelled by what the method reads   *)
(* of it: its number of points (len) and its bounding rectangle            *)
(* (cv2.boundingRect).  A rectangle argument is a record x, y, w, h; the   *)
(* returned document is modelled by the body rectangle written into it,    *)
(* the corner radii and the description.  SpecSvg is a direct call with    *)
(* arguments drawn from small sets; SpecComplete is the script             *)
(* test_complete.py from the call of detect_main_object on.                *)
(***************************************************************************)

\* SVG_CONFIG of config.py
max_rx == 30
max_ry == 30

\* the contours of the inputs have 0..MaxPoints points
MaxPoints == 5

Rect(x, y, w, h) == [x |-> x, y |-> y, w |-> w, h |-> h]

\* len(v) of Python: the points of a contour, the keys of a dict
PyLen(v) ==
    IF "n_points" \in DOMAIN v THEN v.n_points ELSE Cardinality(DOMAIN v)

\* rx and ry with the divisors exchanged
calculate_corner_radius_swapped(width, height) ==
    [rx |-> Min(max_rx, width \div 20), ry |-> Min(max_ry, height \div 10)]

\* _calculate_corner_radius(width, height)
calculate_corner_radius(width, height) ==
    [rx |-> Min(max_rx, width \div 10), ry |-> Min(max_ry, height \div 20)]

\* _adjust_coordinates(x, y, offset_x, offset_y)
adjust_coordinates(x, y, offset_x, offset_y) ==
    [x |-> x - offset_x, y |-> y - offset_y]

\* the body of generate_remote_body(x, y, w, h, rx, ry) inside the document
\* of create_svg_document(width, height, body, description)
Document(at, w, h, radius, description) ==
    [x |-> at.x, y |-> at.y, w |-> w, h |-> h,
     rx |-> radius.rx, ry |-> radius.ry, description |-> description]

\* generate_svg(width, height, main_contour, features, padded_rect,
\*              crop_offset)
generate_svg(main_contour, padded_rect, crop_offset) ==
    LET offset_x == crop_offset[1]
        offset_y == crop_offset[2]
    IN  IF padded_rect # None
        THEN Document(adjust_coordinates(padded_rect.x, padded_rect.y,
                                         offset_x, offset_y),
                      padded_rect.w, padded_rect.h,
                      calculate_corner_radius(padded_rect.w, padded_rect.h),
                      "padded")
        ELSE IF main_contour # None /\ PyLen(main_contour) >= 4
        THEN LET r == main_contour.bounding_rect
             IN  Document(adjust_coordinates(r[1], r[2], offset_x, offset_y),
                          r[3], r[4],
                          calculate_corner_radius(r[3], r[4]),
                          "contour")
        ELSE Document([x |-> 320, y |-> 200], 320, 880,
                      calculate_corner_radius(320, 880), "default")

\* rectangles narrow and wide, low and high enough for both cases of the
\* two minima
SvgRects ==
    {Rect(x, y, w, h) : x \in {0, 40}, y \in {25}, w \in {9, 90, 320},
                        h \in {19, 150, 880}}

SvgContours ==
    {[n_points |-> n, bounding_rect |-> <<r.x, r.y, r.w, r.h>>] :
        n \in 0..MaxPoints,
        r \in {Rect(55, 25, 90, 150), Rect(40, 50, 400, 500)}}

\* what detect_main_object returns for a product in a 200x200 image
SvgResults == {ResultInfo(Measured(Product), 10, 200, 200)}

InitSvg ==
    /\ ClassifierIdle
    /\ EstimatorsIdle
    /\ \E main_contour \in SvgContours \cup SvgResults \cup {None},
          padded_rect \in SvgRects \cup {None},
          crop_offset \in {<<0, 0>>, <<40, 25>>} :
         svg_arg = [main_contour |-> main_contour,
                    padded_rect |-> padded_rect,
                    crop_offset |-> crop_offset]
    /\ svg_ret = None
    /\ test_raised = FALSE
    /\ shadow_prev = None
    /\ HandlerIdle
    /\ UploadIdle
    /\ OptimizerIdle
    /\ pc = "generate"

GenerateSvg ==
    /\ pc = "generate"
    /\ svg_ret' = generate_svg(svg_arg.main_contour, svg_arg.padded_rect,
                               svg_arg.crop_offset)
    /\ pc' = "generated"
    /\ UNCHANGED <<classifierVars, estimatorVars, svg_arg, test_raised,
                   shadow_prev, handlerVars, uploadVars, optimizerVars>>

NextSvg == GenerateSvg

SpecSvg == InitSvg /\ [][NextSvg]_vars

\* test_complete.py, lines 28-35: the value of detect_main_object is kept
\* as main_contour and, when it is not None, handed to cv2.drawContours,
\* which rejects a list whose element is a dict
DrawContours ==
    /\ pc = "done"
    /\ IF main_ret # None
       THEN test_raised' = TRUE /\ pc' = "test_failed"
       ELSE test_raised' = FALSE /\ pc' = "test_generate"
    /\ UNCHANGED <<classifierVars, estimatorVars, svg_arg, svg_ret,
                   shadow_prev, handlerVars, uploadVars, optimizerVars>>

\* test_complete.py, line 63: generate_svg(width, height, main_contour,
\* features)
TestGenerateSvg ==
    /\ pc = "test_generate"
    /\ svg_arg' = [main_contour |-> main_ret, padded_rect |-> None,
                   crop_offset |-> <<0, 0>>]
    /\ svg_ret' = generate_svg(main_ret, None, <<0, 0>>)
    /\ pc' = "test_done"
    /\ UNCHANGED <<classifierVars, estimatorVars, test_raised, shadow_prev,
                   handlerVars, uploadVars, optimizerVars>>

NextComplete ==
    \/ NextMain
    \/ DrawContours
    \/ TestGenerateSvg

SpecComplete == InitMain /\ [][NextComplete]_vars

\* the rectangle of the body in the generated document
BodyRect4(doc) == <<doc.x, doc.y, doc.w, doc.h>>

\* C21: when detect_main_object returned a value that is not None, the
\* script that hands that value to generate_svg as main_contour ends with a
\* document whose body is at the bounding rectangle of the detected contour.
C21_ReturnedValuePlacesBody ==
    (pc \in {"test_done", "test_failed"} /\ main_ret # None)
        => /\ svg_ret # None
           /\ BodyRect4(svg_ret) = main_ret.original_rect

\* C25: the body is padded_rect when given, else the bounding rectangle of
\* a main_contour of at least 4 points, else (320,200,320,880); x and y are
\* shifted by crop_offset in the first two cases only; rx = min(30, w // 10)
\* and ry = min(30, h // 20) in every case.
C25_RectangleByPrecedence ==
    pc = "generated" =>
        LET padded == svg_arg.padded_rect
            contour == svg_arg.main_contour
            dx == svg_arg.crop_offset[1]
            dy == svg_arg.crop_offset[2]
        IN  /\ padded # None =>
                BodyRect4(svg_ret) =
                    <<padded.x - dx, padded.y - dy, padded.w, padded.h>>
            /\ (padded = None /\ contour # None /\ PyLen(contour) >= 4) =>
                BodyRect4(svg_ret) =
                    <<contour.bounding_rect[1] - dx,
                      contour.bounding_rect[2] - dy,
                      contour.bounding_rect[3], contour.bounding_rect[4]>>
            /\ (padded = None /\ (contour = None \/ PyLen(contour) < 4)) =>
                BodyRect4(svg_ret) = <<320, 200, 320, 880>>
            /\ svg_ret.rx = Min(30, svg_ret.w \div 10)
            /\ svg_ret.ry = Min(30, svg_ret.h \div 20)

\* a contour of four points decides the body, shifted by a crop offset, and
\* one radius is capped while the other is not
C25_Witness ==
    /\ pc = "generated"
    /\ svg_arg.padded_rect = None
    /\ svg_arg.main_contour # None
    /\ PyLen(svg_arg.main_contour) = 4
    /\ svg_arg.crop_offset = <<40, 25>>
    /\ svg_ret.description = "contour"
    /\ svg_ret.x = 0
    /\ svg_ret.rx = 30
    /\ svg_ret.ry = 25

----------------------------------------------------------------------------
\* the bounding box of the body of the current call
BodyBox == info[CHOOSE i \in InfoOfType("body") : TRUE].bounding_box

\* the bounding box of the circle_control of the current call
CircleBox == info[CHOOSE i \in InfoOfType("circle_control") : TRUE].bounding_box

\* the dot-candidates that are still 'small_dot' when the method returns
RetainedDots == {d \in Range(small_dots) : info[d].type = "small_dot"}

----------------------------------------------------------------------------
(***************************************************************************)
(* Two invocations of detect_shadow.  SpecShadowTwice calls the method on  *)
(* a scene and then again, on the same scene or on one that differs from   *)
(* it in the depth of the band below the top edge only: a band 7 pixels    *)
(* deep is crossed by the inside samples of the left and right edges       *)
(* (column x + 10 and x + w - 11, three of the twenty rows) and by no      *)
(* other sample.  round() is a function: where the two calls compute the   *)
(* same strength they return the same rounded strength.                    *)
(***************************************************************************)

\* the scenes of the first call: a 40x40 region whose bands are absent or
\* reach the rows the centre samples are drawn from
IsDeepShadowArg(img) ==
    \E corner \in {<<30, 30>>, <<30, 5>>},
       background \in {255, 55},
       top_depth \in {0, MaxBand},
       bottom_depth \in {0, MaxBand} :
        img = [img_w |-> 100, img_h |-> 100,
               bounding_box |-> <<corner[1], corner[2], 40, 40>>,
               background |-> background,
               surface |-> 200,
               top_depth |-> top_depth, top_band |-> 100,
               bottom_depth |-> bottom_depth, bottom_band |-> 150]

\* the scenes of the second call
Variants(img) ==
    {img} \cup {[img EXCEPT !.top_depth = t] : t \in {0, 7}}

SameFraction(a, b) == a.num * b.den = b.num * a.den

InitShadowTwice ==
    /\ ClassifierIdle
    /\ ServicesIdle
    /\ corner_arg = None
    /\ corner_ret = None
    /\ IsDeepShadowArg(shadow_arg)
    /\ center_samples = <<>>
    /\ shadow_ret = None
    /\ thresholded = None
    /\ thresh_otsu = None
    /\ main_arg = None
    /\ valid_contours = <<>>
    /\ main_ret = None
    /\ pc = "shadow"

\* a second call of detect_shadow(contour_info)
DetectShadowAgain ==
    /\ pc = "shadowed"
    /\ shadow_prev = None
    /\ shadow_prev' = [arg |-> shadow_arg, samples |-> center_samples,
                       ret |-> shadow_ret]
    /\ \E img \in Variants(shadow_arg) :
        \E samples \in CenterDraws(img) :
         \E direction_info \in
                {DirectionInfo(img, CenterBrightness(samples))} :
            /\ shadow_arg' = img
            /\ center_samples' = samples
            /\ shadow_ret' \in
                   ShadowResult(direction_info, CenterBrightness(samples))
            /\ SameFraction(InnerStrength,
                   Strength(InnerDarknessList(direction_info,
                                CenterBrightness(samples)), 50))
                 => shadow_ret'.inner_strength = shadow_ret.inner_strength
            /\ SameFraction(OuterStrength,
                   Strength(OuterDarknessList(direction_info), 100))
                 => shadow_ret'.outer_strength = shadow_ret.outer_strength
    /\ pc' = "shadowed"
    /\ UNCHANGED <<classifierVars, corner_arg, corner_ret, thresholded,
                   thresh_otsu, main_arg, valid_contours, main_ret,
                   svgVars, handlerVars, uploadVars, optimizerVars>>

NextShadowTwice ==
    \/ DetectShadow
    \/ DetectShadowAgain

SpecShadowTwice == InitShadowTwice /\ [][NextShadowTwice]_vars

\* what the claim lists of the returned dict
Reported(ret) ==
    <<ret.has_inner_shadow, ret.has_outer_shadow, ret.inner_strength,
      ret.outer_strength, ret.blur_radius>>

\* C23 as stated: two invocations with the same image, region and
\* parameters return the same has_inner_shadow, has_outer_shadow, strengths
\* and blur_radius.
C23_SameReturnTwice ==
    (shadow_prev # None /\ shadow_prev.arg = shadow_arg)
        => Reported(shadow_ret) = Reported(shadow_prev.ret)

\* C23: two invocations with the same image, region and parameters return
\* the same dict whenever the ten brightnesses they sampled at random
\* positions have the same mean.
C23_SameReturnForSameBaseline ==
    (/\ shadow_prev # None
     /\ shadow_prev.arg = shadow_arg
     /\ SumSeq(center_samples) = SumSeq(shadow_prev.samples))
        => shadow_ret = shadow_prev.ret

\* two calls on one image whose samples differ and whose mean agrees
C23_Witness ==
    /\ shadow_prev # None
    /\ shadow_prev.arg = shadow_arg
    /\ center_samples # shadow_prev.samples
    /\ SumSeq(center_samples) = SumSeq(shadow_prev.samples)
    /\ shadow_ret.has_inner_shadow
    /\ shadow_ret = shadow_prev.ret

\* two calls on one image that disagree on has_inner_shadow
C23_InnerShadowDiffers ==
    /\ shadow_prev # None
    /\ shadow_prev.arg = shadow_arg
    /\ shadow_ret.has_inner_shadow # shadow_prev.ret.has_inner_shadow

\* C24: two calls that agree on the centre baseline and on the inside
\* brightness of the top and bottom edges return the same has_inner_shadow
\* and inner_strength, whatever the inside brightness of the left and right
\* edges.
C24_InnerShadowIgnoresLeftRight ==
    (/\ shadow_prev # None
     /\ SumSeq(center_samples) = SumSeq(shadow_prev.samples)
     /\ shadow_ret.direction_info.top.inner_avg
            = shadow_prev.ret.direction_info.top.inner_avg
     /\ shadow_ret.direction_info.bottom.inner_avg
            = shadow_prev.ret.direction_info.bottom.inner_avg)
        => /\ shadow_ret.has_inner_shadow = shadow_prev.ret.has_inner_shadow
           /\ shadow_ret.inner_strength = shadow_prev.ret.inner_strength

\* two such calls whose left and right inside brightness is more than 10
\* darker than the baseline in one image and equal to it in the other
C24_Witness ==
    /\ shadow_prev # None
    /\ SumSeq(center_samples) = SumSeq(shadow_prev.samples)
    /\ shadow_ret.direction_info.top.inner_avg
           = shadow_prev.ret.direction_info.top.inner_avg
    /\ shadow_ret.direction_info.bottom.inner_avg
           = shadow_prev.ret.direction_info.bottom.inner_avg
    /\ Baseline - shadow_ret.direction_info.left.inner_avg > 20 * 10
    /\ Baseline - shadow_ret.direction_info.right.inner_avg > 20 * 10
    /\ shadow_prev.ret.direction_info.left.inner_avg = Baseline
    /\ ~shadow_ret.has_inner_shadow

----------------------------------------------------------------------------
(***************************************************************************)
(* The /generate_svg handler of src/src/app.py, from the return of         *)
(* detect_all_contours on.  A region is modelled by its type and by the    *)
(* color the handler stores on it; the markup by the number of regions it  *)
(* draws.  A Python call binds its arguments before the body runs: a       *)
(* keyword that is no parameter of the callee raises TypeError.            *)
(***************************************************************************)

\* the handler receives up to MaxRegions regions
MaxRegions == 3

\* def extract_contour_color(self, image, contour_info)
extract_contour_color_params == <<"image", "contour_info">>

\* the arguments bind: the positional ones to the first parameters, each
\* keyword to a parameter that is left
Binds(params, n_positional, keywords) ==
    /\ n_positional <= Len(params)
    /\ \A k \in keywords :
          \E i \in (n_positional + 1)..Len(params) : params[i] = k

\* extract_contour_color: the mean color inside the contour, or gray
extract_contour_color(contour_info) ==
    [hex |-> IF contour_info.type = "body" THEN "808080" ELSE "mean"]

\* the lists detect_all_contours can return: at most one body and at most
\* one circle_control
DetectedLists ==
    {s \in UNION {[1..n -> [type : Roles, color : {None}]] :
                    n \in 0..MaxRegions} :
        /\ Cardinality({k \in DOMAIN s : s[k].type = "body"}) <= 1
        /\ Cardinality({k \in DOMAIN s : s[k].type = "circle_control"}) <= 1}

InitHandler ==
    /\ ClassifierIdle
    /\ EstimatorsIdle
    /\ SvgIdle
    /\ shadow_prev = None
    /\ UploadIdle
    /\ OptimizerIdle
    /\ all_contours_original \in DetectedLists
    /\ response = None
    /\ pc = "colors"

\* lines 114-123: for i, contour_info in enumerate(all_contours_original),
\* the call extract_contour_color(image, contour_info, sample_ring=...)
SampleColors ==
    /\ pc = "colors"
    /\ IF Len(all_contours_original) = 0
       THEN /\ pc' = "markup"
            /\ UNCHANGED <<all_contours_original, response>>
       ELSE IF ~Binds(extract_contour_color_params, 2, {"sample_ring"})
       THEN /\ response' = [success |-> FALSE, error |-> "TypeError"]
            /\ pc' = "answered"
            /\ UNCHANGED all_contours_original
       ELSE /\ all_contours_original' =
                  [k \in DOMAIN all_contours_original |->
                      [all_contours_original[k] EXCEPT
                          !.color = extract_contour_color(
                                        all_contours_original[k])]]
            /\ pc' = "markup"
            /\ UNCHANGED response
    /\ UNCHANGED <<classifierVars, estimatorVars, svgVars, shadow_prev,
                   uploadVars, optimizerVars>>

\* lines 125-458: crop, draw every region with contour_info['color']['hex'],
\* answer success
EmitMarkup ==
    /\ pc = "markup"
    /\ IF \E k \in DOMAIN all_contours_original :
             all_contours_original[k].color = None
       THEN response' = [success |-> FALSE, error |-> "KeyError"]
       ELSE response' = [success |-> TRUE,
                         drawn |-> Len(all_contours_original)]
    /\ pc' = "answered"
    /\ UNCHANGED <<classifierVars, estimatorVars, svgVars, shadow_prev,
                   all_contours_original, uploadVars, optimizerVars>>

NextHandler ==
    \/ SampleColors
    \/ EmitMarkup

SpecHandler == InitHandler /\ [][NextHandler]_vars

\* C26: when the handler has answered a request whose image has at least
\* one detected region, every region carries a color with a hex field and
\* the answer is success = true.
C26_RegionsColoredAndSuccess ==
    (pc = "answered" /\ Len(all_contours_original) >= 1)
        => /\ response.success
           /\ \A k \in DOMAIN all_contours_original :
                 /\ all_contours_original[k].color # None
                 /\ "hex" \in DOMAIN all_contours_original[k].color

----------------------------------------------------------------------------
(***************************************************************************)
(* AutoSVGOptimizer.optimize_svg of src/src/auto_optimizer.py.  What the   *)
(* browser renders and how similar it is to the original are inputs of     *)
(* each iteration: the rendering fails (svg_to_image returns None), or it  *)
(* has another size than the original (calculate_similarity returns 0.0    *)
(* and the empty dict), or it has a similarity, here in hundredths.  The   *)
(* SVG of an iteration is modelled by the number of the iteration that     *)
(* generated it.                                                           *)
(***************************************************************************)

\* max_iterations is at most MaxIterations
MaxIterations == 3

\* 0.5 * psnr_normalized + 0.5 * hist_similarity, the histogram correlation
\* lying between -1 and 1
Similarities == {-10, 0, 50, 85, 90}

\* calculate_similarity(img1, img2): (0.0, {}) for images of different
\* shapes, else the similarity with its metrics
calculate_similarity(same_shape, overall) ==
    IF ~same_shape
    THEN [similarity |-> 0, metrics |-> {}]
    ELSE [similarity |-> overall,
          metrics |-> {"mse", "psnr", "hist_similarity", "overall"}]

InitOptimizer ==
    /\ ClassifierIdle
    /\ EstimatorsIdle
    /\ SvgIdle
    /\ shadow_prev = None
    /\ HandlerIdle
    /\ UploadIdle
    /\ \E max_iterations \in 0..MaxIterations :
         opt_arg = [similarity_threshold |-> 85,
                    max_iterations |-> max_iterations]
    /\ iteration = 0
    /\ history = <<>>
    /\ best_similarity = 0
    /\ best_svg = None
    /\ opt_ret = None
    /\ opt_raised = FALSE
    /\ pc = "optimize"

\* lines 271-285: the rendering failed, `continue`
SkipIteration ==
    /\ pc = "optimize"
    /\ iteration < opt_arg.max_iterations
    /\ iteration' = iteration + 1
    /\ UNCHANGED <<classifierVars, estimatorVars, svgVars, shadow_prev,
                   handlerVars, uploadVars, opt_arg, history,
                   best_similarity, best_svg, opt_ret, opt_raised, pc>>

\* lines 271-310: one iteration whose rendering succeeded
Iterate ==
    /\ pc = "optimize"
    /\ iteration < opt_arg.max_iterations
    /\ iteration' = iteration + 1
    /\ \E same_shape \in BOOLEAN, overall \in Similarities :
        LET computed == calculate_similarity(same_shape, overall)
            similarity == computed.similarity
        IN  IF "psnr" \notin computed.metrics
            THEN \* line 291: metrics['psnr'] raises KeyError
                 /\ opt_raised' = TRUE
                 /\ pc' = "optimized"
                 /\ UNCHANGED <<history, best_similarity, best_svg>>
            ELSE /\ history' = Append(history,
                                   [iteration |-> iteration + 1,
                                    similarity |-> similarity])
                 /\ IF similarity > best_similarity
                    THEN /\ best_similarity' = similarity
                         /\ best_svg' = [generated_in |-> iteration + 1]
                    ELSE UNCHANGED <<best_similarity, best_svg>>
                 /\ pc' = IF similarity >= opt_arg.similarity_threshold
                          THEN "return"
                          ELSE "optimize"
                 /\ UNCHANGED opt_raised
    /\ UNCHANGED <<classifierVars, estimatorVars, svgVars, shadow_prev,
                   handlerVars, uploadVars, opt_arg, opt_ret>>

\* lines 312-322: the loop is over, return the dict
ReturnBest ==
    /\ \/ pc = "return"
       \/ pc = "optimize" /\ iteration = opt_arg.max_iterations
    /\ opt_ret' = [svg_content |-> best_svg, similarity |-> best_similarity,
                   history |-> history]
    /\ pc' = "optimized"
    /\ UNCHANGED <<classifierVars, estimatorVars, svgVars, shadow_prev,
                   handlerVars, uploadVars, opt_arg, iteration, history,
                   best_similarity, best_svg, opt_raised>>

NextOptimizer ==
    \/ SkipIteration
    \/ Iterate
    \/ ReturnBest

SpecOptimizer == InitOptimizer /\ [][NextOptimizer]_vars

\* the largest similarity recorded in history
MaxRecorded ==
    CHOOSE s \in {history[k].similarity : k \in DOMAIN history} :
        \A k \in DOMAIN history : history[k].similarity <= s

\* C27: optimize_svg ends after at most max_iterations iterations without an
\* exception, also when an iteration reported mismatched sizes; it stopped
\* right after the first iteration that reached the threshold, recorded at
\* most one history entry per iteration, and returns the largest recorded
\* similarity with the SVG of the iteration that recorded it.
C27_EndsWithBestOfHistory ==
    pc = "optimized" =>
        /\ ~opt_raised
        /\ iteration <= opt_arg.max_iterations
        /\ Len(history) <= iteration
        /\ \A k \in DOMAIN history :
              history[k].similarity >= opt_arg.similarity_threshold
                  => k = Len(history)
        /\ history # <<>> =>
              /\ opt_ret.similarity = MaxRecorded
              /\ opt_ret.svg_content # None
              /\ \E k \in DOMAIN history :
                    /\ history[k].similarity = MaxRecorded
                    /\ opt_ret.svg_content.generated_in
                           = history[k].iteration

----------------------------------------------------------------------------
\* C28: the padded_rect of a result of detect_main_object lies inside the
\* image and contains the original_rect, whichever pass produced it.
C28_PaddedRectInsideImageAroundOriginal ==
    main_ret # None =>
        LET p == main_ret.padded_rect
            o == main_ret.original_rect
        IN  /\ 0 <= p[1] /\ 0 <= p[2]
            /\ p[1] + p[3] <= main_arg.img_width
            /\ p[2] + p[4] <= main_arg.img_height
            /\ p[1] <= o[1] /\ p[2] <= o[2]
            /\ o[1] + o[3] <= p[1] + p[3]
            /\ o[2] + o[4] <= p[2] + p[4]

\* the fallback pass returned a product less than the padding away from
\* the left and the bottom border: the padded rectangle is cut at both
C28_Witness ==
    /\ pc = "done"
    /\ main_ret # None
    /\ PrimaryValid = {}
    /\ main_arg.padding = 10
    /\ main_ret.original_rect = <<10, 165, 180, 30>>
    /\ main_ret.padded_rect = <<0, 155, 200, 45>>

----------------------------------------------------------------------------
\* C29: no returned region has shape 'line': the body is 'rectangle' and
\* every other returned region has an aspect ratio between 0.6 and 1.4,
\* outside the range of the line rule.
C29_NoReturnedLine ==
    (pc = "done" /\ ~raised) =>
        \A k \in 1..Len(result) :
            /\ result[k].shape # "line"
            /\ result[k].type = "body" => result[k].shape = "rectangle"
            /\ result[k].type # "body" =>
                  /\ 60 <= result[k].aspect_ratio
                  /\ result[k].aspect_ratio <= 140

\* a long filled glyph, a line by the shape rules, was traced next to a
\* control inside a tall body; the body and the control are returned, the
\* glyph is not
C29_Witness ==
    /\ pc = "done"
    /\ ~raised
    /\ \E i \in DOMAIN info :
          /\ info[i].aspect_ratio > 300
          /\ info[i].extent > 50
          /\ info[i].type = "unknown"
    /\ \E k \in ResultOfType("body") :
          /\ result[k].aspect_ratio < 33
          /\ result[k].shape = "rectangle"
    /\ ResultOfType("circle_control") # {}

----------------------------------------------------------------------------
(***************************************************************************)
(* The upload handlers of src/src/app.py.  A file name is the sequence of  *)
(* its parts, "." being a part of its own, so that '.' in filename,        *)
(* rsplit('.', 1) and lower() are computed as Python computes them.  The   *)
(* clock is int(time.time()); it advances between requests, and several    *)
(* requests can be served within one second.  upload_log records, for each *)
(* request answered, the handler, whether it answered success and the path *)
(* it saved to.                                                            *)
(***************************************************************************)

\* the requests of one run and the seconds they are spread over
MaxRequests == 3
MaxClock == 2

ALLOWED_EXTENSIONS == {"jpg", "jpeg", "png"}

\* the file names of the requests: '' (no file chosen), names without dot,
\* with a trailing dot, with upper-case and with refused extensions
Filenames ==
    {<<>>, <<"photo">>, <<"photo", ".">>, <<"photo", ".", "jpg">>,
     <<"photo", ".", "PNG">>, <<"photo", ".", "gif">>,
     <<"my", ".", "remote", ".", "jpeg">>}

\* str.lower() on the parts that occur
Lower(part) ==
    CASE part = "PNG" -> "png"
      [] part = "JPG" -> "jpg"
      [] OTHER -> part

\* filename.rsplit('.', 1)[1]: what follows the last '.'
RSplitLast(filename) ==
    LET dots == {i \in DOMAIN filename : filename[i] = "."}
        last == CHOOSE i \in dots : \A j \in dots : j <= i
    IN  IF last = Len(filename) THEN "" ELSE filename[last + 1]

\* allowed_file(filename)
allowed_file(filename) ==
    /\ \E i \in DOMAIN filename : filename[i] = "."
    /\ Lower(RSplitLast(filename)) \in ALLOWED_EXTENSIONS

\* the request passes the three tests of a handler
Accepted(has_image, filename) ==
    /\ has_image
    /\ filename # <<>>
    /\ allowed_file(filename)

\* file.save(file_path): the file at that path now holds this upload
Save(files, file_path, content) ==
    {f \in files : f.path # file_path}
        \cup {[path |-> file_path, content |-> content]}

InitUpload ==
    /\ ClassifierIdle
    /\ EstimatorsIdle
    /\ SvgIdle
    /\ shadow_prev = None
    /\ HandlerIdle
    /\ UploadIdle
    /\ OptimizerIdle
    /\ pc = "serving"

\* time passes
Tick ==
    /\ clock < MaxClock
    /\ clock' = clock + 1
    /\ UNCHANGED <<classifierVars, estimatorVars, svgVars, shadow_prev,
                   handlerVars, CURRENT_IMAGE_PATH, uploads, upload_log,
                   optimizerVars, pc>>

\* /upload_product_image
UploadProductImage ==
    /\ Len(upload_log) < MaxRequests
    /\ \E has_image \in BOOLEAN, filename \in Filenames :
        IF ~Accepted(has_image, filename)
        THEN /\ upload_log' = Append(upload_log,
                   [handler |-> "product", success |-> FALSE, path |-> None])
             /\ UNCHANGED <<CURRENT_IMAGE_PATH, uploads>>
        ELSE LET timestamp == clock
                 ext == Lower(RSplitLast(filename))
                 file_path == Path("uploads", "product", timestamp, ext)
             IN  /\ uploads' = Save(uploads, file_path, Len(upload_log) + 1)
                 /\ CURRENT_IMAGE_PATH' = file_path
                 /\ upload_log' = Append(upload_log,
                        [handler |-> "product", success |-> TRUE,
                         path |-> file_path])
    /\ UNCHANGED <<classifierVars, estimatorVars, svgVars, shadow_prev,
                   handlerVars, clock, optimizerVars, pc>>

\* /upload_debug_image
UploadDebugImage ==
    /\ Len(upload_log) < MaxRequests
    /\ \E has_image \in BOOLEAN, filename \in Filenames :
        IF ~Accepted(has_image, filename)
        THEN /\ upload_log' = Append(upload_log,
                   [handler |-> "debug", success |-> FALSE, path |-> None])
             /\ UNCHANGED uploads
        ELSE LET timestamp == clock
                 ext == Lower(RSplitLast(filename))
                 file_path == Path("uploads", "debug_upload", timestamp, ext)
             IN  /\ uploads' = Save(uploads, file_path, Len(upload_log) + 1)
                 /\ upload_log' = Append(upload_log,
                        [handler |-> "debug", success |-> TRUE,
                         path |-> file_path])
    /\ UNCHANGED <<classifierVars, estimatorVars, svgVars, shadow_prev,
                   handlerVars, CURRENT_IMAGE_PATH, clock, optimizerVars, pc>>

NextUpload ==
    \/ Tick
    \/ UploadProductImage
    \/ UploadDebugImage

SpecUpload == InitUpload /\ [][NextUpload]_vars

\* the accepted product uploads, by their number in the log
AcceptedProductUploads ==
    {k \in DOMAIN upload_log :
        upload_log[k].handler = "product" /\ upload_log[k].success}

\* C30: CURRENT_IMAGE_PATH is the path saved by the last accepted product
\* upload (the default path before the first one), whatever rejected and
\* debug uploads were served in between, and two accepted product uploads
\* are stored under distinct paths.
C30_CurrentPathAndDistinctPaths ==
    /\ IF AcceptedProductUploads = {}
       THEN CURRENT_IMAGE_PATH = DEFAULT_IMAGE_PATH
       ELSE \E k \in AcceptedProductUploads :
               /\ \A j \in AcceptedProductUploads : j <= k
               /\ CURRENT_IMAGE_PATH = upload_log[k].path
    /\ \A j, k \in AcceptedProductUploads :
          j # k => upload_log[j].path # upload_log[k].path

====
